---- MODULE Spec2Model ----
(***************************************************************************)
(* Model of the chat-app search core: EmbeddingService (embeddings.js),    *)
(* VectorDatabaseService (vectorDatabase.js), EnhancedSearchService        *)
(* (enhancedSearch.js) and the message write paths (routes/messages.js,    *)
(* server.js).                                                             *)
(*                                                                         *)
(* Numbers: scores are fixed-point integers.  wordScore and similarity are *)
(* in units of 1/100, weights in units of 1/1000, so a weighted score is   *)
(* in units of 1/100000; a rounded finalScore is in units of 1/10000.      *)
(* A vector is the record [len, x, y]: the array of length len whose first *)
(* two components are x and y and whose other components are 0.            *)
(***************************************************************************)
EXTENDS Integers, Sequences, FiniteSets, TLC

VARIABLES
    \* ---- EmbeddingService (embeddings.js)
    useClaude,      \* this.useClaude
    useOpenAI,      \* this.useOpenAI
    epc,            \* position of the generateEmbedding call in flight
    etext,          \* its argument
    etried,         \* the providers it has called so far, in order
    eresult,        \* what it returned
    ecalls,         \* generateEmbedding calls entered so far
    \* ---- EnhancedSearchService.mergeResults (enhancedSearch.js)
    mpc,            \* "input" before the merge, "merged" after it
    mWord,          \* wordResults
    mSem,           \* semanticResults
    mWeights,       \* <<wordWeight, semanticWeight>>
    mLimit,         \* limit
    mOut,           \* the array mergeResults returned
    \* ---- VectorDatabaseService (vectorDatabase.js) and the remote collection
    isEnabled,      \* this.isEnabled
    vclient,        \* this.client is set
    dimensions,     \* this.dimensions
    initpc,         \* "pending" while initializeClient awaits ensureCollection
    remoteUp,       \* the remote index answers
    collDim,        \* vector size of the remote collection (0: no collection)
    coll,           \* the points of the remote collection
    nextPid,        \* the next fresh point id (generateUUID)
    remoteErrors,   \* failed remote calls so far (each is logged once)
    \* ---- EnhancedSearchService state, message store, detached work
    useVectorDB,    \* enhancedSearch.useVectorDB
    store,          \* the Message collection
    tasks,          \* messages whose detached indexMessage call is pending
    live,           \* messages indexed with success and not deleted since
    \* ---- one search request (enhancedSearch.js, routes/messages.js)
    sq,             \* the arguments of the search in flight
    searches,       \* searches started so far
    wpc,            \* wordSearch: "none", "find", "done", "threw"
    wres,           \* what wordSearch resolved to
    werr,           \* the lexical query failed in this search
    vpc,            \* semanticSearch: "none", "stats", "vector", "mongo", "done", "threw"
    vres,           \* what semanticSearch resolved to
    rerr,           \* the remote index was unavailable to this search
    merr,           \* the store query of the in-process fallback failed
    vpath,          \* the backend that produced vres
    sout,           \* what the search resolved to
    \* ---- one message being sent (routes/messages.js, server.js)
    wr,             \* the send in flight: its path, message, position, embedding
    acks,           \* per message, how its send was answered
    icall,          \* how the last indexMessage call settled
    sfail,          \* the messages whose send met a failure of the store
    \* ---- LocalEmbeddingService (localEmbeddings.js)
    lmodel,         \* this.model is set
    isLoading,      \* this.isLoading
    loadPromise,    \* this.loadPromise: the number of the load it belongs to (0: null)
    transformers,   \* this.transformers is set
    pstate,         \* per load, where it is: "unused", "import", "pipeline", "fulfilled", "rejected"
    cst,            \* per caller of embedText, its position and the load it awaits
    \* ---- one comparison of two vectors (the cosine routines)
    cosA,           \* the first vector
    cosB,           \* the second vector
    cosOut,         \* the routine applied and how it ended
    \* ---- one deleteMessage call (vectorDatabase.js)
    dcall,          \* the last call: its message id and the requests it sent
    \* ---- the network between the services and the remote index
    remoteSilent,   \* the remote index takes requests and never answers them
    \* ---- one GET /search request seen from the route (routes/messages.js)
    rq,             \* req.query: userId, q, combineResults
    rresp,          \* the response: status and the keys of its body
    \* ---- processes that construct a VectorDatabaseService on one remote index
    qremote,        \* the remote index: the collection exists, its payload indexes
    vinst,          \* per process: position in initializeClient, isEnabled, answers met
    \* ---- a caller of the introspection methods of the EmbeddingService
    iask,           \* the answers it got, each with the number of calls made before it
    \* ---- single calls of the VectorDatabaseService seen from their caller
    gstats,         \* what the last getStats call came to
    bcall           \* the last batchIndexMessages call: its list and the calls it made

embedVars == <<useClaude, useOpenAI, epc, etext, etried, eresult, ecalls>>

mergeVars == <<mpc, mWord, mSem, mWeights, mLimit, mOut>>

indexVars == <<isEnabled, vclient, dimensions, initpc, remoteUp, collDim, coll,
               nextPid, remoteErrors, useVectorDB, store, tasks, live>>

searchVars == <<sq, searches, wpc, wres, werr, vpc, vres, rerr, merr, vpath, sout>>

writeVars == <<wr, acks, icall, sfail>>

\* The variables of the components added after the search
loadVars == <<lmodel, isLoading, loadPromise, transformers, pstate, cst>>

cosVars == <<cosA, cosB, cosOut>>

delVars == <<dcall>>

netVars == <<remoteSilent>>

\* The variables of the components added after deleteMessage
routeVars == <<rq, rresp>>

collVars == <<qremote, vinst>>

\* The variables of the components added after the route
introVars == <<iask>>

callVars == <<gstats, bcall>>

moreVars == <<collVars, introVars, callVars>>

laterVars == <<netVars, routeVars, moreVars>>

extVars == <<writeVars, loadVars, cosVars, delVars, laterVars>>

vars == <<embedVars, mergeVars, indexVars, searchVars, extVars>>

(***************************************************************************)
(* EmbeddingService                                                        *)
(***************************************************************************)

\* How many generateEmbedding calls a behaviour makes
MaxEmbedCalls == 2

\* embeddings.js:61,171,250,348: the dimension every method is meant to return
EMBEDDING_DIM == 1536

\* embeddings.js:158: the number of scores parsed out of the Claude answer
CLAUDE_SCORES == 20

\* A text that is not a string (e.g. the array Express builds from ?q=a&q=b)
NonString == "<non-string>"

Texts == {"hello there", "goodbye friend", "123", NonString}

IsString(t) == t # NonString

Vec(n, a, b) == [len |-> n, x |-> a, y |-> b]

NoResult == [kind |-> "none", vec |-> Vec(0, 0, 0)]

Returned(v) == [kind |-> "vector", vec |-> v]

\* embeddings.js:61  new Array(1536).fill(0)
ZeroVector == Vec(EMBEDDING_DIM, 0, 0)

\* The values of process.env.CLAUDE_API_KEY / OPENAI_API_KEY
ApiKeys == {"", "your-openai-api-key-here", "sk-key"}

\* embeddings.js:10
UseClaudeOf(claudeKey) == claudeKey # ""

\* embeddings.js:11
UseOpenAIOf(claudeKey, openaiKey) ==
    /\ openaiKey # ""
    /\ ~UseClaudeOf(claudeKey)
    /\ openaiKey # "your-openai-api-key-here"

\* What one call of a provider can end in.  "wrongshape" is a 200 answer whose
\* embedding array has another length than the model's 1536.
Outcomes == {"ok", "network", "auth", "timeout", "malformed", "wrongshape"}

\* Lengths a provider's embedding array can have when it is not 1536
OtherLens == {3, 384}

\* The vectors a remote provider can answer with for a text
RemoteXY(t) ==
    CASE t = "hello there" -> {<<2, 1>>}
      [] t = "hello friend" -> {<<1, 1>>}
      [] OTHER -> {<<1, 2>>}

\* embeddings.js:197-341: the legacy embedding is a function of the text alone;
\* embedding[text.length % 1536] += 0.05 makes its norm positive for every string
LegacyXY(t) ==
    CASE t = "hello there" -> <<1, 0>>
      [] t = "hello friend" -> <<1, 1>>
      [] OTHER -> <<0, 1>>

\* embeddings.js:100-181: the results generateClaudeEmbedding can produce under
\* outcome o: a set of vectors, empty when it throws
ClaudePadLen == IF CLAUDE_SCORES < EMBEDDING_DIM THEN EMBEDDING_DIM ELSE CLAUDE_SCORES

generateClaudeEmbedding(t, o) ==
    IF o \in {"ok", "wrongshape"}
    THEN \* >= 20 numbers found: slice(0, 20), pad with 0 to 1536, slice(0, 1536)
         { Vec(IF ClaudePadLen > EMBEDDING_DIM THEN EMBEDDING_DIM ELSE ClaudePadLen,
               xy[1], xy[2]) : xy \in RemoteXY(t) }
    ELSE {}

\* embeddings.js:70-99: response.data.data[0].embedding is returned as it came
generateOpenAIEmbedding(t, o) ==
    CASE o = "ok" -> { Vec(EMBEDDING_DIM, xy[1], xy[2]) : xy \in RemoteXY(t) }
      [] o = "wrongshape" -> { Vec(n, 1, 0) : n \in OtherLens }
      [] OTHER -> {}

\* embeddings.js:338: the leading components Math.random() - 0.5 can give
LegacyRandomXY == {<<1, 0>>, <<0, 1>>, <<1, 1>>}

\* A norm test that sends every text to the random vector
LegacyNormIsZeroAlways(t) == TRUE

\* embeddings.js:331-335: magnitude > 0 fails
LegacyNormIsZero(t) == LegacyXY(t) = <<0, 0>>

\* embeddings.js:197-341: text.toLowerCase() throws on a non-string; the
\* normalised vector of the text, or a random one when its norm is zero
generateLegacyLocalEmbedding(t, o) ==
    IF ~IsString(t) THEN {}
    ELSE IF LegacyNormIsZero(t)
         THEN { Vec(EMBEDDING_DIM, xy[1], xy[2]) : xy \in LegacyRandomXY }
         ELSE { Vec(EMBEDDING_DIM, LegacyXY(t)[1], LegacyXY(t)[2]) }

\* embeddings.js:31-43: the provider the try block calls
PrimaryProvider ==
    IF useClaude THEN "claude" ELSE IF useOpenAI THEN "openai" ELSE "legacy"

\* embeddings.js:50-56: the provider the catch block calls
FallbackProvider ==
    IF useClaude /\ ~useOpenAI THEN "claude" ELSE "legacy"

CallProvider(p, t, o) ==
    CASE p = "claude" -> generateClaudeEmbedding(t, o)
      [] p = "openai" -> generateOpenAIEmbedding(t, o)
      [] OTHER -> generateLegacyLocalEmbedding(t, o)

EmbedStart ==
    /\ \E ck \in {"", "sk-key"}, ok \in ApiKeys :
          /\ useClaude = UseClaudeOf(ck)
          /\ useOpenAI = UseOpenAIOf(ck, ok)
    /\ epc = "idle"
    /\ etext = "hello there"
    /\ etried = <<>>
    /\ eresult = NoResult
    /\ ecalls = 0

\* The merge is not running in the specifications of the other components
MergeIdle ==
    /\ mpc = "input"
    /\ mWord = <<>>
    /\ mSem = <<>>
    /\ mWeights = <<400, 600>>
    /\ mLimit = 0
    /\ mOut = <<>>

\* A JavaScript null in the place of a vector
Null == Vec(-1, 0, 0)

\* The write paths and the index are not running in the specifications of the
\* embedding call and of the merge
IndexIdle ==
    /\ isEnabled = FALSE
    /\ vclient = FALSE
    /\ dimensions = EMBEDDING_DIM
    /\ initpc = "done"
    /\ remoteUp = TRUE
    /\ collDim = 0
    /\ coll = {}
    /\ nextPid = 1
    /\ remoteErrors = 0
    /\ useVectorDB = FALSE
    /\ store = [m \in {} |-> Null]
    /\ tasks = {}
    /\ live = {}

NoSearch == [kind |-> "none", userId |-> "", query |-> "", limit |-> 0, minSimilarity |-> 0]

NoOutcome == [status |-> "none", results |-> <<>>, searchType |-> "none", http |-> 0]

\* No search is in flight
SearchIdle ==
    /\ sq = NoSearch
    /\ searches = 0
    /\ wpc = "none" /\ wres = <<>> /\ werr = FALSE
    /\ vpc = "none" /\ vres = <<>> /\ rerr = FALSE /\ merr = FALSE
    /\ vpath = "none"
    /\ sout = NoOutcome

NoWrite == [path |-> "none", m |-> 0, pc |-> "idle", embedding |-> Null]

NoCall == [fn |-> "none", outcome |-> "none"]

\* No message is being sent
WriteIdle ==
    /\ wr = NoWrite
    /\ acks = [m \in {} |-> "none"]
    /\ icall = NoCall
    /\ sfail = {}

\* The local model service is not used
LoadIdle ==
    /\ lmodel = FALSE
    /\ isLoading = FALSE
    /\ loadPromise = 0
    /\ transformers = FALSE
    /\ pstate = <<>>
    /\ cst = <<>>

NoCosine == [routine |-> "none", outcome |-> "none", value |-> 0]

\* No two vectors are being compared
CosIdle ==
    /\ cosA = Null
    /\ cosB = Null
    /\ cosOut = NoCosine

NoDelete == [m |-> 0, searches |-> <<>>, deletes |-> <<>>, outcome |-> "none"]

\* deleteMessage has not been called
DelIdle == dcall = NoDelete

\* The remote index answers what it is asked
NetIdle == remoteSilent = FALSE

NoRequest == [userId |-> "", q |-> "", combineResults |-> ""]

NoResponse == [status |-> 0, keys |-> {}, total |-> 0]

\* No request is at the route
RouteIdle == rq = NoRequest /\ rresp = NoResponse

\* vectorDatabase.js:83-87: requiredIndexes
PayloadFields == <<"userId", "timestamp", "messageId">>

\* The processes that construct the service against the same remote index
Instances == {1, 2}

NoInstance == [pc |-> "idle", enabled |-> FALSE, field |-> 0, starts |-> 0,
               answers |-> {}, error |-> "none"]

\* No process has constructed the service and the remote index is empty
CollIdle ==
    /\ qremote = [exists |-> FALSE, indexes |-> {}, creates |-> 0]
    /\ vinst = [i \in Instances |-> NoInstance]

NoAnswers == [service |-> {}, dimension |-> {}]

\* Nothing has been asked of the EmbeddingService
IntroIdle == iask = NoAnswers

NoStats == [outcome |-> "none", enabled |-> FALSE, vectors_count |-> -1, asked |-> FALSE]

NoBatch == [messages |-> <<>>, embeds |-> 0, upserts |-> 0, outcome |-> "none"]

\* Neither getStats nor batchIndexMessages has been called by the observed caller
CallIdle == gstats = NoStats /\ bcall = NoBatch

MoreIdle == CollIdle /\ IntroIdle /\ CallIdle

LaterIdle == NetIdle /\ RouteIdle /\ MoreIdle

ExtIdle == WriteIdle /\ LoadIdle /\ CosIdle /\ DelIdle /\ LaterIdle

EmbedInit == EmbedStart /\ MergeIdle /\ IndexIdle /\ SearchIdle /\ ExtIdle

\* No embedding call is running in the specifications of the other components
EmbedIdle ==
    /\ useClaude = FALSE
    /\ useOpenAI = FALSE
    /\ epc = "idle"
    /\ etext = "hello there"
    /\ etried = <<>>
    /\ eresult = NoResult
    /\ ecalls = 0

\* embeddings.js:29: generateEmbedding(text) is entered
EmbedCall ==
    /\ epc = "idle"
    /\ ecalls < MaxEmbedCalls
    /\ ecalls' = ecalls + 1
    /\ \E t \in Texts : etext' = t
    /\ epc' = "primary"
    /\ etried' = <<>>
    /\ eresult' = NoResult
    /\ UNCHANGED <<useClaude, useOpenAI, mergeVars, indexVars, searchVars, extVars>>

\* embeddings.js:30-44: the try block
EmbedPrimary ==
    /\ epc = "primary"
    /\ etried' = Append(etried, PrimaryProvider)
    /\ \E o \in Outcomes :
          LET got == CallProvider(PrimaryProvider, etext, o) IN
          IF got # {}
          THEN /\ \E v \in got : eresult' = Returned(v)
               /\ epc' = "done"
          ELSE /\ eresult' = NoResult
               /\ epc' = "fallback"
    /\ UNCHANGED <<useClaude, useOpenAI, etext, ecalls, mergeVars, indexVars, searchVars, extVars>>

\* embeddings.js:45-63: the catch block and its own catch
EmbedFallback ==
    /\ epc = "fallback"
    /\ etried' = Append(etried, FallbackProvider)
    /\ \E o \in Outcomes :
          LET got == CallProvider(FallbackProvider, etext, o) IN
          IF got # {}
          THEN \E v \in got : eresult' = Returned(v)
          ELSE eresult' = Returned(ZeroVector)
    /\ epc' = "done"
    /\ UNCHANGED <<useClaude, useOpenAI, etext, ecalls, mergeVars, indexVars, searchVars, extVars>>

\* The caller takes the resolved value
EmbedReturn ==
    /\ epc = "done"
    /\ epc' = "idle"
    /\ UNCHANGED <<useClaude, useOpenAI, etext, etried, eresult, ecalls, mergeVars, indexVars, searchVars, extVars>>

EmbedNext == EmbedCall \/ EmbedPrimary \/ EmbedFallback \/ EmbedReturn

SpecEmbed == EmbedInit /\ [][EmbedNext]_vars

\* The rank of a provider in the documented priority order
\* (embeddings.js:13, spec 4.1): remote A, remote B, local model, local fallback
Priority(p) ==
    CASE p = "claude" -> 1
      [] p = "openai" -> 2
      [] p = "local-model" -> 3
      [] OTHER -> 4

\* C1: generateEmbedding never throws and returns a vector of exactly the
\* configured dimension, whatever the text and the providers' outcomes.
C1_AlwaysDimensionD ==
    epc = "done" => /\ eresult.kind = "vector"
                    /\ eresult.vec.len = EMBEDDING_DIM

\* C2: a failing provider hands over to the next one in priority order, no
\* provider is called twice in one call, and the zero vector is returned only
\* after the deterministic local fallback was tried.
C2_AdvancesInPriorityOrder ==
    epc = "done" =>
        /\ \A i, j \in 1..Len(etried) : i < j => Priority(etried[i]) < Priority(etried[j])
        /\ eresult = Returned(ZeroVector) => \E i \in 1..Len(etried) : etried[i] = "legacy"

\* A getActiveService that names the provider the last call ended on
getActiveServiceLastTried ==
    IF etried = <<>>
    THEN IF useOpenAI THEN "openai-api" ELSE IF useClaude THEN "claude-api" ELSE "legacy-local"
    ELSE CASE etried[Len(etried)] = "openai" -> "openai-api"
           [] etried[Len(etried)] = "claude" -> "claude-api"
           [] OTHER -> "legacy-local"

\* embeddings.js:355-363  getActiveService()
getActiveService ==
    IF useOpenAI THEN "openai-api"
    ELSE IF useClaude THEN "claude-api"
    ELSE "legacy-local"

\* What getActiveService reports when the provider it names is working
WorkingReports == {"openai-api", "claude-api", "legacy-local"}

\* C14: after a generateEmbedding call in which every provider called failed
\* and the zero vector was returned, getActiveService reports a degraded state,
\* not one of the reports it gives when a provider is working.
C14_DegradedIsReported ==
    (epc = "done" /\ eresult = Returned(ZeroVector) /\ Len(etried) = 2) =>
        getActiveService \notin WorkingReports

(***************************************************************************)
(* EnhancedSearchService.mergeResults                                      *)
(***************************************************************************)

\* The messages of the store
NumMsgs == 3

MsgIds == 1..NumMsgs

\* The longest hit list a branch hands to the merge
MaxHits == 2

\* The largest limit a caller passes
MaxLimit == 2

\* The longest list handed to batchIndexMessages
MaxBatch == 2

\* enhancedSearch.js:235  WORD_BOOST = 0.25, in units of 1/100000
WORD_BOOST == 25000

\* A field a JavaScript object does not have
Undefined == -1

\* enhancedSearch.js:95-106: one element of wordSearch's result
WordHit(id, s) == [id |-> id, wordScore |-> s, similarity |-> Undefined]

\* enhancedSearch.js:169-180, vectorDatabase.js:184-194: one element of a
\* semantic result
SemHit(id, s) == [id |-> id, wordScore |-> Undefined, similarity |-> s]

\* A Map keyed by the ObjectId objects themselves: no two keys are equal
MapIndexByObject(map, id) == 0

\* The position of the entry of key id in the Map (0: no entry).  A Map keeps
\* its keys in insertion order.
MapIndex(map, id) ==
    IF \E i \in 1..Len(map) : map[i].id = id
    THEN CHOOSE i \in 1..Len(map) : map[i].id = id
    ELSE 0

\* Map.prototype.set: replaces the value of an existing key in place
MapSet(map, id, rec) ==
    IF MapIndex(map, id) = 0
    THEN Append(map, rec)
    ELSE [map EXCEPT ![MapIndex(map, id)] = rec]

\* enhancedSearch.js:204-211: the body of wordResults.forEach
AddWordResult(map, r, wordWeight) ==
    MapSet(map, r.id,
           [id |-> r.id, wordScore |-> r.wordScore, similarity |-> r.similarity,
            combinedScore |-> r.wordScore * wordWeight,
            sources |-> <<"word">>])

\* enhancedSearch.js:214-231: the body of semanticResults.forEach
AddSemanticResultOverwriting(map, r, semanticWeight) ==
    MapSet(map, r.id,
           [id |-> r.id, wordScore |-> r.wordScore, similarity |-> r.similarity,
            combinedScore |-> r.similarity * semanticWeight,
            sources |-> <<"semantic">>])

\* The same with the new record tagged as a word hit
AddSemanticResultTaggedWord(map, r, semanticWeight) ==
    IF MapIndex(map, r.id) # 0
    THEN [map EXCEPT ![MapIndex(map, r.id)] =
            [@ EXCEPT !.combinedScore = @ + r.similarity * semanticWeight,
                      !.sources = Append(@, "semantic"),
                      !.similarity = r.similarity]]
    ELSE MapSet(map, r.id,
                [id |-> r.id, wordScore |-> r.wordScore, similarity |-> r.similarity,
                 combinedScore |-> r.similarity * semanticWeight,
                 sources |-> <<"word">>])

AddSemanticResult(map, r, semanticWeight) ==
    IF MapIndex(map, r.id) # 0
    THEN [map EXCEPT ![MapIndex(map, r.id)] =
            [@ EXCEPT !.combinedScore = @ + r.similarity * semanticWeight,
                      !.sources = Append(@, "semantic"),
                      !.similarity = r.similarity]]
    ELSE MapSet(map, r.id,
                [id |-> r.id, wordScore |-> r.wordScore, similarity |-> r.similarity,
                 combinedScore |-> r.similarity * semanticWeight,
                 sources |-> <<"semantic">>])

RECURSIVE AddWordResults(_, _, _)
AddWordResults(map, rs, wordWeight) ==
    IF rs = <<>> THEN map
    ELSE AddWordResults(AddWordResult(map, Head(rs), wordWeight), Tail(rs), wordWeight)

RECURSIVE AddSemanticResults(_, _, _)
AddSemanticResults(map, rs, semanticWeight) ==
    IF rs = <<>> THEN map
    ELSE AddSemanticResults(AddSemanticResult(map, Head(rs), semanticWeight),
                            Tail(rs), semanticWeight)

HasSource(r, tag) == \E i \in 1..Len(r.sources) : r.sources[i] = tag

\* enhancedSearch.js:238-242: finalScore = combinedScore + (hasWord ? WORD_BOOST : 0)
WithFinalScore(r) ==
    [id |-> r.id, wordScore |-> r.wordScore, similarity |-> r.similarity,
     combinedScore |-> r.combinedScore, sources |-> r.sources,
     finalScore |-> r.combinedScore + (IF HasSource(r, "word") THEN WORD_BOOST ELSE 0)]

\* Array.prototype.sort((a, b) => b.finalScore - a.finalScore): stable, so an
\* element goes behind the elements whose finalScore is not smaller
RECURSIVE InsertByFinalScore(_, _)
InsertByFinalScore(sorted, r) ==
    IF sorted = <<>> THEN <<r>>
    ELSE IF Head(sorted).finalScore >= r.finalScore
         THEN <<Head(sorted)>> \o InsertByFinalScore(Tail(sorted), r)
         ELSE <<r>> \o sorted

RECURSIVE SortByFinalScore(_)
SortByFinalScore(rs) ==
    IF rs = <<>> THEN <<>>
    ELSE InsertByFinalScore(SortByFinalScore(SubSeq(rs, 1, Len(rs) - 1)), rs[Len(rs)])

\* slice(0, n + 1)
SliceOneMore(rs, n) == SubSeq(rs, 1, IF n + 1 < Len(rs) THEN n + 1 ELSE Len(rs))

\* Array.prototype.slice(0, n) for n >= 0
Slice(rs, n) == SubSeq(rs, 1, IF n < Len(rs) THEN n ELSE Len(rs))

\* Math.round(x * 10000) / 10000 of a score in units of 1/100000, in units of
\* 1/10000 (Math.round rounds half up)
Round4(x) == (x + 5) \div 10

\* enhancedSearch.js:247-251: rank and rounded finalScore
Ranked(rs) ==
    [i \in 1..Len(rs) |->
        [id |-> rs[i].id, wordScore |-> rs[i].wordScore,
         similarity |-> rs[i].similarity,
         combinedScore |-> rs[i].combinedScore, sources |-> rs[i].sources,
         rank |-> i,
         finalScore |-> Round4(rs[i].finalScore)]]

\* enhancedSearch.js:200-252
mergeResults(wordResults, semanticResults, wordWeight, semanticWeight, limit) ==
    LET messageMap == AddSemanticResults(AddWordResults(<<>>, wordResults, wordWeight),
                                         semanticResults, semanticWeight)
        scored == [i \in 1..Len(messageMap) |-> WithFinalScore(messageMap[i])]
    IN  Ranked(Slice(SortByFinalScore(scored), limit))

\* message.score || 0 of the text index, in units of 1/100
WordScores == {0, 75, 150}

\* Cosine similarities, in units of 1/100
Similarities == {10, 71, 100}

\* wordWeight and semanticWeight, in units of 1/1000 (0.4 / 0.6 by default)
WeightPairs == {<<400, 600>>, <<125, 875>>, <<1000, 0>>}

Seqs(S, n) == UNION { [1..k -> S] : k \in 0..n }

\* wordSearch's result: each message once, by descending text score
WordLists ==
    { s \in Seqs({ WordHit(id, w) : id \in MsgIds, w \in WordScores }, MaxHits) :
        /\ \A i, j \in 1..Len(s) : i < j => s[i].id # s[j].id
        /\ \A i, j \in 1..Len(s) : i < j => s[i].wordScore >= s[j].wordScore }

\* A semantic result: by descending similarity; the remote index returns one hit
\* per point, so a message id can occur more than once
SemLists ==
    { s \in Seqs({ SemHit(id, c) : id \in MsgIds, c \in Similarities }, MaxHits) :
        \A i, j \in 1..Len(s) : i < j => s[i].similarity >= s[j].similarity }

MergeInit ==
    /\ mpc = "input"
    /\ mWord \in WordLists
    /\ mSem \in SemLists
    /\ mWeights \in WeightPairs
    /\ mLimit \in 0..MaxLimit
    /\ mOut = <<>>
    /\ EmbedIdle
    /\ IndexIdle
    /\ SearchIdle
    /\ ExtIdle

\* enhancedSearch.js:43-49: combinedSearch merges the two branches' results
Merge ==
    /\ mpc = "input"
    /\ mOut' = mergeResults(mWord, mSem, mWeights[1], mWeights[2], mLimit)
    /\ mpc' = "merged"
    /\ UNCHANGED <<embedVars, indexVars, searchVars, extVars, mWord, mSem, mWeights, mLimit>>

MergeNext == Merge

SpecMerge == MergeInit /\ [][MergeNext]_vars

Ids(rs) == { rs[i].id : i \in 1..Len(rs) }

Count(rs, id) == Cardinality({ i \in 1..Len(rs) : rs[i].id = id })

\* C7 as stated: in the merge's output no message id has two records, and an id
\* that is in both hit lists has exactly one record, with both sources.
C7_MergedExactlyOnce ==
    mpc = "merged" =>
        /\ \A id \in MsgIds : Count(mOut, id) <= 1
        /\ \A id \in Ids(mWord) \cap Ids(mSem) :
              /\ Count(mOut, id) = 1
              /\ \A i \in 1..Len(mOut) :
                    mOut[i].id = id => HasSource(mOut[i], "word") /\ HasSource(mOut[i], "semantic")

\* C7 amended: no message id has two records; an id that is in both hit lists
\* has one record whenever the limit leaves room for every merged id, and a
\* record it has carries both sources.
C7_MergedAtMostOnce ==
    mpc = "merged" =>
        /\ \A id \in MsgIds : Count(mOut, id) <= 1
        /\ \A id \in Ids(mWord) \cap Ids(mSem) :
              /\ Cardinality(Ids(mWord) \cup Ids(mSem)) <= mLimit => Count(mOut, id) = 1
              /\ \A i \in 1..Len(mOut) :
                    mOut[i].id = id => HasSource(mOut[i], "word") /\ HasSource(mOut[i], "semantic")

C7_Witness ==
    /\ mpc = "merged"
    /\ \E id \in Ids(mWord) \cap Ids(mSem) : Count(mOut, id) = 1
    /\ \E id \in Ids(mWord) \cap Ids(mSem) : Count(mOut, id) = 0

NoRepeats(rs) == \A i, j \in 1..Len(rs) : i # j => rs[i].id # rs[j].id

\* The score of message id in a hit list that holds it at most once (0: no hit)
ScoreIn(rs, id, field) ==
    IF id \in Ids(rs)
    THEN (CHOOSE r \in { rs[i] : i \in 1..Len(rs) } : r.id = id)[field]
    ELSE 0

\* C8: with no id repeated inside a list, every merged record's finalScore is
\* wordScore x wordWeight (if it has a lexical hit) + similarity x
\* semanticWeight (if it has a semantic hit) + the boost (iff its sources
\* include the word search), rounded to four decimals.
C8_FinalScoreFormula ==
    (mpc = "merged" /\ NoRepeats(mWord) /\ NoRepeats(mSem)) =>
        \A i \in 1..Len(mOut) :
            LET r == mOut[i] IN
            /\ r.finalScore =
                 Round4(ScoreIn(mWord, r.id, "wordScore") * mWeights[1]
                        + ScoreIn(mSem, r.id, "similarity") * mWeights[2]
                        + (IF HasSource(r, "word") THEN WORD_BOOST ELSE 0))
            /\ HasSource(r, "word") <=> r.id \in Ids(mWord)

C8_Witness ==
    /\ mpc = "merged" /\ NoRepeats(mWord) /\ NoRepeats(mSem)
    /\ \E i, j \in 1..Len(mOut) :
          /\ mOut[i].id \in Ids(mWord) \cap Ids(mSem)
          /\ mOut[j].id \in Ids(mSem) \ Ids(mWord)
          /\ mOut[i].finalScore * 10 # mOut[i].combinedScore + WORD_BOOST

\* C9: at most limit results, by non-increasing final score, ranked 1..n in
\* that order.
C9_LimitOrderRank ==
    mpc = "merged" =>
        /\ Len(mOut) <= mLimit
        /\ \A i \in 1..Len(mOut) : mOut[i].rank = i
        /\ \A i, j \in 1..Len(mOut) : i < j => mOut[i].finalScore >= mOut[j].finalScore

C9_Witness ==
    /\ mpc = "merged"
    /\ Len(mOut) = mLimit
    /\ Cardinality(Ids(mWord) \cup Ids(mSem)) > mLimit
    /\ \E i, j \in 1..Len(mOut) : i < j /\ mOut[i].finalScore > mOut[j].finalScore

(***************************************************************************)
(* Message store, VectorDatabaseService, write paths, backfill             *)
(***************************************************************************)

\* The largest number of points the remote collection receives
MaxPoints == 2

\* The failed remote calls counted apart; remoteErrors = MaxRemoteErrors reads
\* "that many or more"
MaxRemoteErrors == 2

\* enhancedSearch.js:369  Message.find(query).limit(100)
BACKFILL_BATCH == 100

\* vectorDatabase.js:8  parseInt(process.env.VECTOR_DIMENSIONS) || 1536, and
\* README.md:82  VECTOR_DIMENSIONS=384
DimensionSettings == {EMBEDDING_DIM, 384}

\* The messages clients send.  Message m is sent by MsgSender(m) to
\* MsgReceiver(m); every third one carries a JSON number as its body, which
\* Mongoose casts to the string "123" (Message.js:14-18).
MsgSender(m) == IF m % 3 = 1 THEN "u1" ELSE "u2"

MsgReceiver(m) == CASE m % 3 = 1 -> "u2" [] m % 3 = 2 -> "u1" [] OTHER -> "u3"

SentAsNumber(m) == m % 3 = 0

MsgText(m) == CASE m % 3 = 1 -> "hello there" [] m % 3 = 2 -> "goodbye friend" [] OTHER -> "123"

\* Every vector generateEmbedding(t) can resolve to under the providers
\* selected at construction (embeddings.js:29-64)
GenerateEmbeddingResults(t) ==
    LET first == UNION { CallProvider(PrimaryProvider, t, o) : o \in Outcomes }
        second == UNION { CallProvider(FallbackProvider, t, o) : o \in Outcomes }
    IN  first
        \cup (IF \E o \in Outcomes : CallProvider(PrimaryProvider, t, o) = {}
              THEN second
                   \cup (IF \E o \in Outcomes : CallProvider(FallbackProvider, t, o) = {}
                         THEN {ZeroVector} ELSE {})
              ELSE {})

\* routes/messages.js:136-144, server.js:223-236: message.substring(0, 50)
\* throws inside the try on a body that is not a string, and embedding stays null
RouteEmbeddings(m) ==
    IF SentAsNumber(m) THEN {Null} ELSE GenerateEmbeddingResults(MsgText(m))

\* enhancedSearch.js:156: embedding: { $exists: true, $ne: null, $not: { $size: 0 } }
HasEmbedding(e) == e # Null /\ e.len # 0

\* vectorDatabase.js:121-132: the point of a message
Point(pid, m, uid, v) == [id |-> pid, messageId |-> m, userId |-> uid, vec |-> v]

PointsOf(c, m) == { p \in c : p.messageId = m }

\* The remote index answers a call on the collection: it is reachable and the
\* collection exists
RemoteReady == remoteUp /\ collDim # 0

\* The remote index accepts only vectors of the collection's size
UpsertOk(vs) == RemoteReady /\ \A v \in vs : v.len = collDim

SearchOk(v) == RemoteReady /\ v.len = collDim

CountError(n) == IF n < MaxRemoteErrors THEN n + 1 ELSE n

\* The part of the state the index operations read and write
IndexState == [store |-> store, coll |-> coll, nextPid |-> nextPid,
               remoteErrors |-> remoteErrors, live |-> live]

SetIndexState(st) ==
    /\ store' = st.store
    /\ coll' = st.coll
    /\ nextPid' = st.nextPid
    /\ remoteErrors' = st.remoteErrors
    /\ live' = st.live

\* vectorDatabase.js:110-144  indexMessage(message), v being the embedding
\* generateEmbedding(message.content) resolved to
indexMessage(st, m, uid, v) ==
    IF ~isEnabled THEN st
    ELSE IF vclient /\ UpsertOk({v})
         THEN [st EXCEPT !.coll = @ \cup {Point(st.nextPid, m, uid, v)},
                         !.nextPid = @ + 1,
                         !.live = @ \cup {m}]
         ELSE [st EXCEPT !.remoteErrors = CountError(@)]

\* A guard that looks at isEnabled alone
BatchSkipsWhenDisabled(ms) == ~isEnabled

\* vectorDatabase.js:292: if (!this.isEnabled || messages.length === 0) return
BatchSkips(ms) == ~isEnabled \/ Len(ms) = 0

\* vectorDatabase.js:291-323  batchIndexMessages(messages): ms is the list of
\* message ids, vs[i] the embedding of the i-th
batchIndexMessages(st, ms, vs) ==
    IF BatchSkips(ms) THEN st
    ELSE IF vclient /\ UpsertOk({ vs[i] : i \in 1..Len(ms) })
         THEN [st EXCEPT !.coll = @ \cup { Point(st.nextPid + i - 1, ms[i], MsgSender(ms[i]), vs[i])
                                           : i \in 1..Len(ms) },
                         !.nextPid = @ + Len(ms),
                         !.live = @ \cup { ms[i] : i \in 1..Len(ms) }]
         ELSE [st EXCEPT !.remoteErrors = CountError(@)]

\* vectorDatabase.js:250-285  getStats(): what it returns in enabled
getStatsEnabled ==
    IF ~isEnabled THEN FALSE
    ELSE IF ~vclient THEN FALSE
    ELSE RemoteReady

\* vectorDatabase.js:266-284: getStats' remote call failed (and was logged)
getStatsFailed == isEnabled /\ vclient /\ ~RemoteReady

\* A query that takes the all-zero vector for a missing embedding too
BackfillQueryWithZeroVectors(st, userId) ==
    { m \in MsgIds : /\ st.store[m].exists
                     /\ (~HasEmbedding(st.store[m].embedding)
                           \/ st.store[m].embedding = ZeroVector) }

\* A query that selects the empty arrays alone
BackfillQueryOfEmptyArrays(st, userId) ==
    { m \in MsgIds : /\ st.store[m].exists
                     /\ st.store[m].embedding # Null
                     /\ st.store[m].embedding.len = 0 }

\* enhancedSearch.js:352-369: the messages the backfill query selects.  The
\* object literal of the userId case has the key $or twice, so the second (the
\* embedding condition) replaces the first and the user is not part of the query.
BackfillQuery(st, userId) ==
    { m \in MsgIds : st.store[m].exists /\ ~HasEmbedding(st.store[m].embedding) }

\* enhancedSearch.js:374-399: the loop body for message m; ev is the embedding
\* written to the store, iv the one indexMessage generates for the point
BackfillOne(st, m, ev, iv) ==
    LET saved == [st EXCEPT !.store[m].embedding = ev] IN
    IF ~useVectorDB THEN saved
    ELSE IF getStatsFailed THEN [saved EXCEPT !.remoteErrors = CountError(@)]
    ELSE IF ~getStatsEnabled THEN saved
    ELSE indexMessage(saved, m, MsgSender(m), iv)

RECURSIVE BackfillLoop(_, _, _, _)
BackfillLoop(st, todo, ev, iv) ==
    IF todo = {} THEN st
    ELSE LET m == CHOOSE x \in todo : \A y \in todo : x <= y
         IN  BackfillLoop(BackfillOne(st, m, ev[m], iv[m]), todo \ {m}, ev, iv)

\* Message.find(query).limit(n): the n first messages of a set
FirstN(S, n) == { m \in S : Cardinality({ k \in S : k < m }) < n }

AllVectors == UNION { GenerateEmbeddingResults(t) : t \in Texts }

\* One embedding per message of S, each a possible result for its text
EmbeddingChoices(S) ==
    { f \in [S -> AllVectors] : \A m \in S : f[m] \in GenerateEmbeddingResults(MsgText(m)) }

\* vectorDatabase.js:5-14 and 19-33: the constructor and the synchronous part of
\* initializeClient
IndexConstructed(enableFlag, urlSet, dim) ==
    /\ isEnabled = (enableFlag /\ urlSet)
    /\ vclient = (enableFlag /\ urlSet)
    /\ dimensions = dim
    /\ initpc = IF enableFlag /\ urlSet THEN "pending" ELSE "done"
    /\ nextPid = 1
    /\ remoteErrors = 0
    \* enhancedSearch.js:8
    /\ useVectorDB = (enableFlag /\ urlSet)
    /\ tasks = {}
    /\ live = {}
    /\ store = [m \in MsgIds |-> [exists |-> FALSE, embedding |-> Null]]

\* A fresh deployment: the remote index holds no collection yet
IndexInit ==
    /\ \E enableFlag \in BOOLEAN, urlSet \in BOOLEAN, dim \in DimensionSettings :
          IndexConstructed(enableFlag, urlSet, dim)
    /\ remoteUp \in BOOLEAN
    /\ collDim = 0
    /\ coll = {}
    /\ \E claude \in BOOLEAN :
          /\ useClaude = claude
          /\ useOpenAI = FALSE
    /\ epc = "idle" /\ etext = "hello there" /\ etried = <<>>
    /\ eresult = NoResult /\ ecalls = 0
    /\ MergeIdle
    /\ SearchIdle
    /\ ExtIdle

\* vectorDatabase.js:36-41 and 47-75: initializeClient resumes with
\* ensureCollection: getCollections, createCollection when absent, the payload
\* indexes (whose errors ensurePayloadIndexes swallows)
InitializeClient ==
    /\ initpc = "pending"
    /\ initpc' = "done"
    /\ IF remoteUp
       THEN /\ collDim' = IF collDim = 0 THEN dimensions ELSE collDim
            /\ UNCHANGED <<isEnabled, remoteErrors>>
       ELSE /\ isEnabled' = FALSE
            /\ remoteErrors' = CountError(remoteErrors)
            /\ UNCHANGED collDim
    /\ UNCHANGED <<embedVars, mergeVars, searchVars, extVars, vclient, dimensions, remoteUp, coll, nextPid,
                   useVectorDB, store, tasks, live>>

\* routes/messages.js:125-189  POST /messages
HttpSend ==
    \E m \in MsgIds :
        /\ ~store[m].exists
        /\ \E e \in RouteEmbeddings(m) :
              store' = [store EXCEPT ![m] = [exists |-> TRUE, embedding |-> e]]
        \* routes/messages.js:163-172: indexMessage is started and not awaited
        /\ tasks' = IF isEnabled THEN tasks \cup {m} ELSE tasks
        /\ UNCHANGED <<embedVars, mergeVars, searchVars, extVars, isEnabled, vclient, dimensions, initpc,
                       remoteUp, collDim, coll, nextPid, remoteErrors, useVectorDB, live>>

\* server.js:216-279  socket.on('sendMessage')
SocketSend ==
    \E m \in MsgIds :
        /\ ~store[m].exists
        /\ \E e \in RouteEmbeddings(m) :
              store' = [store EXCEPT ![m] = [exists |-> TRUE, embedding |-> e]]
        /\ UNCHANGED <<embedVars, mergeVars, searchVars, extVars, isEnabled, vclient, dimensions, initpc,
                       remoteUp, collDim, coll, nextPid, remoteErrors, useVectorDB,
                       tasks, live>>

\* routes/messages.js:164-171: the detached indexMessage call runs (cap bounds
\* the point ids of the model)
IndexTaskStep(cap) ==
    \E m \in tasks :
        /\ nextPid <= cap
        /\ tasks' = tasks \ {m}
        /\ \E v \in GenerateEmbeddingResults(MsgText(m)) :
              SetIndexState(indexMessage(IndexState, m, MsgSender(m), v))
        /\ UNCHANGED <<embedVars, mergeVars, searchVars, extVars, isEnabled, vclient, dimensions, initpc,
                       remoteUp, collDim, useVectorDB>>

\* reindex-qdrant.js:18-36: vectorDatabase.indexMessage on a stored message
ReindexMessage ==
    \E m \in MsgIds :
        /\ store[m].exists
        /\ nextPid <= MaxPoints
        /\ \E v \in GenerateEmbeddingResults(MsgText(m)) :
              SetIndexState(indexMessage(IndexState, m, MsgSender(m), v))
        /\ UNCHANGED <<embedVars, mergeVars, searchVars, extVars, isEnabled, vclient, dimensions, initpc,
                       remoteUp, collDim, useVectorDB, tasks>>

\* vectorDatabase.js:291-323: the calls a batchIndexMessages call makes: one
\* generateEmbedding per message (line 298), then one client.upsert (line
\* 314), which on a missing client throws before any request is sent
batchIndexCalls(ms) ==
    IF BatchSkips(ms)
    THEN [messages |-> ms, embeds |-> 0, upserts |-> 0, outcome |-> "resolved"]
    ELSE [messages |-> ms, embeds |-> Len(ms), upserts |-> IF vclient THEN 1 ELSE 0,
          outcome |-> "resolved"]

\* vectorDatabase.js:291-323  batchIndexMessages on a list of stored messages;
\* log says whether the call is recorded in bcall
BatchStep(log) ==
    \E ms \in Seqs(MsgIds, MaxBatch) :
        /\ \A i \in 1..Len(ms) : store[ms[i]].exists
        /\ \A i, j \in 1..Len(ms) : i < j => ms[i] < ms[j]
        /\ nextPid + Len(ms) - 1 <= MaxPoints
        /\ \E f \in EmbeddingChoices({ ms[i] : i \in 1..Len(ms) }) :
              SetIndexState(batchIndexMessages(IndexState, ms, [i \in 1..Len(ms) |-> f[ms[i]]]))
        /\ bcall' = IF log THEN batchIndexCalls(ms) ELSE bcall
        /\ UNCHANGED <<embedVars, mergeVars, searchVars, writeVars, loadVars, cosVars, delVars,
                       netVars, routeVars, collVars, introVars, gstats,
                       isEnabled, vclient, dimensions, initpc,
                       remoteUp, collDim, useVectorDB, tasks>>

BatchIndex == BatchStep(FALSE)

\* vectorDatabase.js:212-227: what client.search answers for the filter on
\* messageId with limit 1: no point, or one of the points of the message
DeleteSearchResults(c, m) ==
    IF PointsOf(c, m) = {} THEN {{}} ELSE { {p} : p \in PointsOf(c, m) }

DeleteRequestsUnguarded(found) == <<{ p.id : p \in found }>>

\* vectorDatabase.js:229-239: the delete requests sent for the search result,
\* each the set of point ids it names
DeleteRequests(found) ==
    IF found = {} THEN <<>> ELSE <<{ p.id : p \in found }>>

\* vectorDatabase.js:207-245  deleteMessage(messageId), found being the answer
\* of the search: the state it leaves and the requests it sent
deleteMessage(st, m, found) ==
    IF ~isEnabled
    THEN [st |-> st,
          call |-> [m |-> m, searches |-> <<>>, deletes |-> <<>>, outcome |-> "resolved"]]
    ELSE LET filter == [key |-> "messageId", value |-> m] IN
         IF ~(vclient /\ SearchOk(Vec(dimensions, 0, 0)))
         THEN [st |-> [st EXCEPT !.remoteErrors = CountError(@)],
               call |-> [m |-> m, searches |-> <<filter>>, deletes |-> <<>>,
                         outcome |-> "resolved"]]
         ELSE LET requests == DeleteRequests(found)
                  ids == UNION { requests[i] : i \in 1..Len(requests) }
              IN  [st |-> [st EXCEPT !.coll = { p \in @ : p.id \notin ids },
                                     !.live = IF found = {} THEN @ ELSE @ \ {m}],
                   call |-> [m |-> m, searches |-> <<filter>>, deletes |-> requests,
                             outcome |-> "resolved"]]

\* A deleteMessage call; log says whether the call is recorded in dcall
DeleteStep(log) ==
    \E m \in MsgIds :
        \E found \in DeleteSearchResults(coll, m) :
            LET r == deleteMessage(IndexState, m, found) IN
            /\ SetIndexState(r.st)
            /\ dcall' = IF log THEN r.call ELSE dcall
            /\ UNCHANGED <<embedVars, mergeVars, searchVars, writeVars, loadVars, cosVars, laterVars,
                           isEnabled, vclient, dimensions, initpc, remoteUp, collDim,
                           useVectorDB, tasks>>

DeleteMessage == DeleteStep(FALSE)

IndexTaskRun == IndexTaskStep(MaxPoints)

\* enhancedSearch.js:369-402: one run of generateMissingEmbeddings(userId)
\* with .limit(batch); failing are the messages whose findByIdAndUpdate
\* rejects, which the catch of the loop body logs and passes over
BackfillRun(userId, cap, batch, failing) ==
    LET todo == FirstN(BackfillQuery(IndexState, userId), batch) \ failing IN
    /\ nextPid + Cardinality(todo) - 1 <= cap
    /\ \E ev \in EmbeddingChoices(todo), iv \in EmbeddingChoices(todo) :
          SetIndexState(BackfillLoop(IndexState, todo, ev, iv))
    /\ UNCHANGED <<embedVars, mergeVars, searchVars, extVars, isEnabled, vclient, dimensions, initpc,
                   remoteUp, collDim, useVectorDB, tasks>>

\* enhancedSearch.js:352-407  generateMissingEmbeddings(userId), every store
\* write succeeding
BackfillFor(userId, cap) == BackfillRun(userId, cap, BACKFILL_BATCH, {})

\* The userId arguments of the backfill; "" is the call without one
BackfillUsers == {"", "u1", "u2"}

BackfillStep(cap) == \E userId \in BackfillUsers : BackfillFor(userId, cap)

Backfill == BackfillStep(MaxPoints)

\* enhancedSearch.js:327-330  getSearchStats refreshes useVectorDB from getStats
GetSearchStats ==
    /\ useVectorDB' = getStatsEnabled
    /\ remoteErrors' = IF getStatsFailed THEN CountError(remoteErrors) ELSE remoteErrors
    /\ UNCHANGED <<embedVars, mergeVars, searchVars, extVars, isEnabled, vclient, dimensions, initpc,
                   remoteUp, collDim, coll, nextPid, store, tasks, live>>

\* The remote index stops answering / answers again
RemoteDown ==
    /\ remoteUp
    /\ remoteUp' = FALSE
    /\ UNCHANGED <<embedVars, mergeVars, searchVars, extVars, isEnabled, vclient, dimensions, initpc,
                   collDim, coll, nextPid, remoteErrors, useVectorDB, store, tasks, live>>

RemoteRecover ==
    /\ ~remoteUp
    /\ remoteUp' = TRUE
    /\ UNCHANGED <<embedVars, mergeVars, searchVars, extVars, isEnabled, vclient, dimensions, initpc,
                   collDim, coll, nextPid, remoteErrors, useVectorDB, store, tasks, live>>

IndexNext ==
    \/ InitializeClient
    \/ HttpSend
    \/ SocketSend
    \/ IndexTaskRun
    \/ ReindexMessage
    \/ BatchIndex
    \/ DeleteMessage
    \/ Backfill
    \/ GetSearchStats
    \/ RemoteDown
    \/ RemoteRecover

SpecIndex == IndexInit /\ [][IndexNext]_vars

\* C3: whatever indexMessage, batchIndex and deleteMessage calls were made, the
\* collection holds at most one point per message id, and exactly one for a
\* message that was indexed and not deleted since.
C3_OnePointPerMessage ==
    \A m \in MsgIds :
        /\ Cardinality(PointsOf(coll, m)) <= 1
        /\ m \in live => Cardinality(PointsOf(coll, m)) = 1

\* C6: once a remote call has failed (at startup or later), the index is
\* disabled, and the failure was logged once.
C6_DisabledAfterFailure ==
    remoteErrors > 0 => (~isEnabled /\ remoteErrors = 1)

\* The write paths and the backfill alone, with the remote index enabled and
\* reachable throughout, and every started piece of work run to its end: the
\* detached indexMessage calls and a backfill that is run again and again.  It
\* starts when initializeClient has created the collection.  No message gets
\* more than two points here, so the cap on the point ids binds nowhere.
IngestInit ==
    /\ isEnabled = TRUE
    /\ vclient = TRUE
    /\ dimensions = EMBEDDING_DIM
    /\ initpc = "done"
    /\ nextPid = 1
    /\ remoteErrors = 0
    /\ useVectorDB = TRUE
    /\ tasks = {}
    /\ live = {}
    /\ store = [m \in MsgIds |-> [exists |-> FALSE, embedding |-> Null]]
    /\ remoteUp = TRUE
    /\ collDim = EMBEDDING_DIM
    /\ coll = {}
    /\ \E claude \in BOOLEAN :
          /\ useClaude = claude
          /\ useOpenAI = FALSE
    /\ epc = "idle" /\ etext = "hello there" /\ etried = <<>>
    /\ eresult = NoResult /\ ecalls = 0
    /\ MergeIdle
    /\ SearchIdle
    /\ ExtIdle

IngestIndexTask == IndexTaskStep(2 * NumMsgs)

IngestBackfill == BackfillStep(2 * NumMsgs)

IngestNext ==
    \/ HttpSend
    \/ SocketSend
    \/ IngestIndexTask
    \/ IngestBackfill

SpecIngest ==
    /\ IngestInit
    /\ [][IngestNext]_vars
    /\ WF_vars(IngestIndexTask)
    /\ WF_vars(IngestBackfill)

\* C4: every message persisted through the HTTP route or the socket handler
\* is eventually present in the remote index, the index being enabled and
\* reachable and the backfill run repeatedly.
C4_EventuallyIndexed ==
    \A m \in MsgIds : store[m].exists ~> (PointsOf(coll, m) # {})

(***************************************************************************)
(* EnhancedSearchService: wordSearch, semanticSearch, combinedSearch       *)
(***************************************************************************)

\* The searches a run makes
MaxSearches == 1

\* enhancedSearch.js:22-23  wordWeight = 0.4, semanticWeight = 0.6, in 1/1000
DEFAULT_WORD_WEIGHT == 400

DEFAULT_SEMANTIC_WEIGHT == 600

\* enhancedSearch.js:161  .limit(100): the candidates of the in-process search
MONGO_CANDIDATES == 100

Users == {"u1", "u2", "u3"}

Queries == {"hello there", "hello friend"}

\* minSimilarity in 1/100: 0 and the default 0.1 (enhancedSearch.js:20)
MinSimilarities == {0, 10}

Words(t) ==
    CASE t = "hello there" -> {"hello", "there"}
      [] t = "goodbye friend" -> {"goodbye", "friend"}
      [] t = "hello friend" -> {"hello", "friend"}
      [] OTHER -> {t}

\* The $meta textScore of the store's text index (Message.js:30), in 1/100:
\* 0.75 for each word of the query the message has
TextScore(query, t) == 75 * Cardinality(Words(query) \cap Words(t))

\* The integer part of 100 * dot / sqrt(nn), for dot >= 0 and dot * dot <= nn
Sim100(dot, nn) ==
    CHOOSE s \in 0..100 :
        /\ s * s * nn <= 10000 * dot * dot
        /\ (s + 1) * (s + 1) * nn > 10000 * dot * dot

\* enhancedSearch.js:257-277  cosineSimilarity(vecA, vecB), in 1/100
cosineSimilarity(vecA, vecB) ==
    IF vecA = Null \/ vecB = Null \/ vecA.len # vecB.len THEN 0
    ELSE LET dotProduct == vecA.x * vecB.x + vecA.y * vecB.y
             normA == vecA.x * vecA.x + vecA.y * vecA.y
             normB == vecB.x * vecB.x + vecB.y * vecB.y
         IN  IF normA = 0 \/ normB = 0 THEN 0
             ELSE Sim100(dotProduct, normA * normB)

\* vectorDatabase.js:60  distance: 'Cosine': the score the remote index gives a
\* point for a query vector of the collection's size
RemoteScore(queryEmbedding, v) == cosineSimilarity(queryEmbedding, v)

\* The elements of a finite set of numbers or of points, in ascending order
RECURSIVE SeqOfSet(_)
SeqOfSet(S) ==
    IF S = {} THEN <<>>
    ELSE LET least == CHOOSE x \in S : \A y \in S : x <= y
         IN  <<least>> \o SeqOfSet(S \ {least})

\* Array.prototype.sort((a, b) => b[field] - a[field]) and the store's
\* descending sort: stable
RECURSIVE InsertDesc(_, _, _)
InsertDesc(sorted, r, field) ==
    IF sorted = <<>> THEN <<r>>
    ELSE IF Head(sorted)[field] >= r[field]
         THEN <<Head(sorted)>> \o InsertDesc(Tail(sorted), r, field)
         ELSE <<r>> \o sorted

RECURSIVE SortDesc(_, _)
SortDesc(rs, field) ==
    IF rs = <<>> THEN <<>>
    ELSE InsertDesc(SortDesc(SubSeq(rs, 1, Len(rs) - 1), field), rs[Len(rs)], field)

\* A store query without the condition on the user
IsAnyone(userId, m) == TRUE

\* enhancedSearch.js:80-83, 152-155: $or: [{senderId: userId}, {receiverId: userId}]
IsParty(userId, m) == MsgSender(m) = userId \/ MsgReceiver(m) = userId

\* wordSearch without its catch block
wordSearchRethrowing(userId, query, limit, storeOk) ==
    [threw |-> ~storeOk, hits |-> <<>>]

\* enhancedSearch.js:74-112  wordSearch(userId, query, limit); storeOk: the
\* store answered the query
wordSearch(userId, query, limit, storeOk) ==
    IF ~storeOk THEN [threw |-> FALSE, hits |-> <<>>]
    ELSE LET found == { m \in MsgIds : /\ store[m].exists
                                       /\ IsParty(userId, m)
                                       /\ TextScore(query, MsgText(m)) > 0 }
             hits == [i \in 1..Cardinality(found) |->
                        WordHit(SeqOfSet(found)[i],
                                TextScore(query, MsgText(SeqOfSet(found)[i])))]
         IN  [threw |-> FALSE, hits |-> Slice(SortDesc(hits, "wordScore"), limit)]

\* A threshold test that lets every hit through
PassesAlways(score, minSimilarity) == TRUE

\* enhancedSearch.js:168 (similarity >= minSimilarity) and vectorDatabase.js:182
\* (result.score >= minSimilarity)
PassesThreshold(score, minSimilarity) == score >= minSimilarity

\* enhancedSearch.js:151-157: the messages Message.find selects for the
\* in-process search
MongoCandidates(userId) ==
    { m \in MsgIds : /\ store[m].exists
                     /\ IsParty(userId, m)
                     /\ HasEmbedding(store[m].embedding) }

\* vectorDatabase.js:166-175: the points the filter of client.search lets
\* through: those whose payload userId is the user
RemoteCandidates(userId) == { q \in coll : q.userId = userId }

\* enhancedSearch.js:145-195  mongoSemanticSearch, queryEmbedding being what
\* generateEmbedding(query) resolved to
mongoSemanticSearch(userId, queryEmbedding, limit, minSimilarity, storeOk) ==
    IF ~storeOk THEN <<>>
    ELSE LET messages == SeqOfSet(FirstN(MongoCandidates(userId), MONGO_CANDIDATES))
             scored == [i \in 1..Len(messages) |->
                          SemHit(messages[i],
                                 cosineSimilarity(queryEmbedding, store[messages[i]].embedding))]
             results == SelectSeq(scored,
                                  LAMBDA r : PassesThreshold(r.similarity, minSimilarity))
         IN  Slice(SortDesc(results, "similarity"), limit)

\* vectorDatabase.js:163-194: client.search with the userId filter and
\* limit * 2, then the minSimilarity filter, slice(0, limit) and the mapping
vectorSearchHits(userId, queryEmbedding, limit, minSimilarity) ==
    LET pids == SeqOfSet({ p.id : p \in RemoteCandidates(userId) })
        pointOf(pid) == CHOOSE p \in coll : p.id = pid
        scored == [i \in 1..Len(pids) |->
                     SemHit(pointOf(pids[i]).messageId,
                            RemoteScore(queryEmbedding, pointOf(pids[i]).vec))]
        searchResult == Slice(SortDesc(scored, "similarity"), limit * 2)
    IN  Slice(SelectSeq(searchResult,
                        LAMBDA r : PassesThreshold(r.similarity, minSimilarity)), limit)

\* semanticSearch with a catch block that rethrows
AfterVectorErrorRethrow == "threw"

\* enhancedSearch.js:134-139: where semanticSearch goes when the remote path
\* throws: the catch block awaits mongoSemanticSearch
AfterVectorError == "mongo"

\* The index variables a search leaves alone
indexButErrors == <<isEnabled, vclient, dimensions, initpc, remoteUp, collDim, coll, nextPid,
                    useVectorDB, store, tasks, live>>

\* enhancedSearch.js:30-31: combinedSearch asks each branch for limit * 2 hits;
\* routes/messages.js:358-436 passes its limit to semanticSearch as it is
BranchLimit == IF sq.kind = "combined" THEN sq.limit * 2 ELSE sq.limit

\* routes/messages.js:258-355 (GET /search) and 358-436 (GET /semantic-search):
\* a search starts; combinedSearch starts both branches in one Promise.all
SearchCall ==
    /\ sq = NoSearch
    /\ searches < MaxSearches
    /\ \E kind \in {"combined", "semantic"}, userId \in Users, query \in Queries,
          limit \in 1..MaxLimit, minSimilarity \in MinSimilarities :
          sq' = [kind |-> kind, userId |-> userId, query |-> query, limit |-> limit,
                 minSimilarity |-> minSimilarity]
    /\ searches' = searches + 1
    /\ wpc' = IF sq'.kind = "combined" THEN "find" ELSE "none"
    /\ vpc' = "stats"
    /\ UNCHANGED <<embedVars, mergeVars, extVars, indexVars, wres, werr, vres, rerr, merr, vpath, sout>>

\* enhancedSearch.js:74-112: the store answers wordSearch's query, or fails
WordFind ==
    /\ wpc = "find"
    /\ \E storeOk \in BOOLEAN :
          LET r == wordSearch(sq.userId, sq.query, BranchLimit, storeOk) IN
          /\ wpc' = IF r.threw THEN "threw" ELSE "done"
          /\ wres' = r.hits
          /\ werr' = ~storeOk
    /\ UNCHANGED <<embedVars, mergeVars, extVars, indexVars, sq, searches, vpc, vres, rerr, merr,
                   vpath, sout>>

\* enhancedSearch.js:122-132: getStats decides the path
SemStats ==
    /\ vpc = "stats"
    /\ vpc' = IF getStatsEnabled THEN "vector" ELSE "mongo"
    /\ rerr' = ~getStatsEnabled
    /\ remoteErrors' = IF getStatsFailed THEN CountError(remoteErrors) ELSE remoteErrors
    /\ UNCHANGED <<embedVars, mergeVars, extVars, indexButErrors, sq, searches, wpc, wres, werr, vres,
                   merr, vpath, sout>>

\* vectorDatabase.js:153-201 called from enhancedSearch.js:127: the remote
\* search; when it throws, semanticSearch's catch block takes over
SemVector ==
    /\ vpc = "vector"
    /\ \E queryEmbedding \in GenerateEmbeddingResults(sq.query) :
          IF isEnabled /\ vclient /\ SearchOk(queryEmbedding)
          THEN /\ vres' = vectorSearchHits(sq.userId, queryEmbedding, BranchLimit,
                                           sq.minSimilarity)
               /\ vpc' = "done"
               /\ vpath' = "vector_db"
               /\ UNCHANGED <<rerr, remoteErrors>>
          ELSE /\ vpc' = AfterVectorError
               /\ rerr' = TRUE
               /\ remoteErrors' = CountError(remoteErrors)
               /\ UNCHANGED <<vres, vpath>>
    /\ UNCHANGED <<embedVars, mergeVars, extVars, indexButErrors, sq, searches, wpc, wres, werr,
                   merr, sout>>

\* enhancedSearch.js:145-195 called from enhancedSearch.js:131 or 138: the
\* in-process search; its catch block returns []
SemMongo ==
    /\ vpc = "mongo"
    /\ \E queryEmbedding \in GenerateEmbeddingResults(sq.query), storeOk \in BOOLEAN :
          /\ vres' = mongoSemanticSearch(sq.userId, queryEmbedding, BranchLimit,
                                         sq.minSimilarity, storeOk)
          /\ merr' = ~storeOk
    /\ vpc' = "done"
    /\ vpath' = "mongodb"
    /\ UNCHANGED <<embedVars, mergeVars, extVars, indexVars, sq, searches, wpc, wres, werr, rerr, sout>>

\* enhancedSearch.js:60 (metadata.searchType of combinedSearch, from the
\* useVectorDB the service holds) and routes/messages.js:410 (searchType of
\* GET /semantic-search, from vectorDatabase.isEnabled)
ReportedSearchType ==
    IF sq.kind = "combined"
    THEN IF useVectorDB THEN "vector_db" ELSE "mongodb"
    ELSE IF isEnabled THEN "qdrant_vector_search" ELSE "mongo_semantic"

\* enhancedSearch.js:29-63 (the continuation of Promise.all) for a combined
\* search, routes/messages.js:383-427 for a semantic one; the route answers
\* res.json (200), or 500 from its catch block (routes/messages.js:348-354,
\* 429-435)
SearchJoin ==
    /\ sq # NoSearch
    /\ sout = NoOutcome
    /\ wpc \in {"none", "done", "threw"}
    /\ vpc \in {"done", "threw"}
    /\ sout' = IF wpc = "threw" \/ vpc = "threw"
               THEN [status |-> "rejected", results |-> <<>>, searchType |-> "none",
                     http |-> 500]
               ELSE [status |-> "resolved",
                     results |-> IF sq.kind = "combined"
                                 THEN mergeResults(wres, vres, DEFAULT_WORD_WEIGHT,
                                                   DEFAULT_SEMANTIC_WEIGHT, sq.limit)
                                 ELSE vres,
                     searchType |-> ReportedSearchType,
                     http |-> 200]
    /\ UNCHANGED <<embedVars, mergeVars, extVars, indexVars, sq, searches, wpc, wres, werr,
                   vpc, vres, rerr, merr, vpath>>

\* The messages of the store and the points of the collection when the search
\* is made: every message was sent, the first Cardinality(S) of them over HTTP
\* with their indexing done
SearchInit ==
    /\ \E enabled \in BOOLEAN :
          /\ isEnabled = enabled
          /\ useVectorDB = enabled
    /\ vclient = TRUE
    /\ dimensions = EMBEDDING_DIM
    /\ initpc = "done"
    /\ remoteUp \in BOOLEAN
    /\ collDim = EMBEDDING_DIM
    /\ remoteErrors = 0
    /\ tasks = {}
    /\ useClaude \in BOOLEAN
    /\ useOpenAI = FALSE
    /\ epc = "idle" /\ etext = "hello there" /\ etried = <<>>
    /\ eresult = NoResult /\ ecalls = 0
    /\ \E ev \in [MsgIds -> AllVectors \cup {Null}] :
          /\ \A m \in MsgIds : ev[m] \in RouteEmbeddings(m)
          /\ store = [m \in MsgIds |-> [exists |-> TRUE, embedding |-> ev[m]]]
    /\ \E n \in 0..MaxPoints :
          /\ live = { m \in MsgIds : m <= n /\ isEnabled /\ HasEmbedding(store[m].embedding) }
          /\ coll = { Point(m, m, MsgSender(m), store[m].embedding) : m \in live }
          /\ nextPid = Cardinality(live) + 1
    /\ MergeIdle
    /\ SearchIdle
    /\ ExtIdle

SearchNext ==
    \/ SearchCall
    \/ WordFind
    \/ SemStats
    \/ SemVector
    \/ SemMongo
    \/ SearchJoin
    \/ RemoteDown
    \/ RemoteRecover

SpecSearch == SearchInit /\ [][SearchNext]_vars

Min(a, b) == IF a < b THEN a ELSE b

\* C5: when the remote index is unavailable to a semanticSearch call (disabled,
\* or a remote call of the search failed), the call does not throw; its result
\* comes from the in-process search: at most limit hits, by descending
\* similarity, each at least minSimilarity, each a message the user sent or
\* received that has a stored embedding.
C5_FallbackDoesNotThrow ==
    (vpc \in {"done", "threw"} /\ rerr) =>
        /\ vpc = "done"
        /\ vpath = "mongodb"
        /\ Len(vres) <= BranchLimit
        /\ \A i, j \in 1..Len(vres) : i < j => vres[i].similarity >= vres[j].similarity
        /\ \A i \in 1..Len(vres) :
              /\ vres[i].similarity >= sq.minSimilarity
              /\ store[vres[i].id].exists
              /\ IsParty(sq.userId, vres[i].id)
              /\ HasEmbedding(store[vres[i].id].embedding)
        /\ sout.status # "rejected"

C5_Witness ==
    /\ vpc = "done" /\ rerr /\ isEnabled /\ remoteErrors > 0
    /\ Len(vres) = 2
    /\ sout.status = "resolved"

\* C10 as stated: a combined search in which a branch failed resolves, and its
\* results contain every hit the other branch produced.
C10_ResultsContainOtherBranch ==
    (sq.kind = "combined" /\ sout # NoOutcome) =>
        /\ sout.status = "resolved"
        /\ werr => Ids(vres) \subseteq Ids(sout.results)
        /\ (rerr \/ merr) => Ids(wres) \subseteq Ids(sout.results)

\* C10 amended: a combined search in which a branch failed (the lexical query,
\* the remote index, the store query of the in-process search) resolves; its
\* results are hits of the branches, min(limit, distinct messages hit) of them,
\* so that they contain every hit of the other branch whenever the branches
\* hit at most limit distinct messages.
C10_ResolvesWithOtherBranch ==
    (sq.kind = "combined" /\ sout # NoOutcome /\ (werr \/ rerr \/ merr)) =>
        /\ sout.status = "resolved"
        /\ Ids(sout.results) \subseteq Ids(wres) \cup Ids(vres)
        /\ Len(sout.results) = Min(sq.limit, Cardinality(Ids(wres) \cup Ids(vres)))
        /\ werr => wres = <<>> /\ Ids(sout.results) \subseteq Ids(vres)
        /\ (rerr /\ merr) => vres = <<>> /\ Ids(sout.results) \subseteq Ids(wres)

C10_Witness ==
    /\ sq.kind = "combined" /\ sout.status = "resolved"
    /\ werr /\ rerr /\ ~merr
    /\ Len(sout.results) = sq.limit
    /\ Cardinality(Ids(vres)) > sq.limit

(***************************************************************************)
(* Sending a message: POST /messages and the socket sendMessage handler,   *)
(* step by step, and the indexMessage calls                                *)
(***************************************************************************)

\* The index variables a send leaves alone until its detached task runs
indexButStoreTasks == <<isEnabled, vclient, dimensions, initpc, remoteUp, collDim, coll,
                        nextPid, remoteErrors, useVectorDB, live>>

\* How a path answers a send that failed: res.status(500) (routes/messages.js:
\* 183-188), socket.emit('error') (server.js:273-277)
FailureAck(path) == IF path = "http" THEN "500" ELSE "error"

\* How a path answers a send that went through: res.status(201)
\* (routes/messages.js:174), io.to(...).emit('messageReceived') (server.js:268-269)
SuccessAck(path) == IF path = "http" THEN "201" ELSE "messageReceived"

\* indexMessage with a catch block that rethrows
OnIndexErrorRethrow == "rejected"

\* vectorDatabase.js:140-142: indexMessage's catch block logs the error and
\* falls off the end of the function
OnIndexError == "resolved"

\* vectorDatabase.js:110-144: how the promise of indexMessage settles, v being
\* the embedding generateEmbedding resolved to
indexMessageSettles(v) ==
    IF ~isEnabled THEN "resolved"
    ELSE IF vclient /\ UpsertOk({v}) THEN "resolved"
    ELSE OnIndexError

\* enhancedSearch.js:282-293: how the first try block of
\* enhancedSearch.indexMessage ends; inner is how vectorDatabase.indexMessage
\* settled ("none": it was not called)
OnEnhancedIndexError(inner) == "continues"

\* routes/messages.js:125-135, server.js:216-221: the handler is entered with
\* a message and reaches the await of generateEmbedding
WriteReceive ==
    /\ wr = NoWrite
    /\ \E path \in {"http", "socket"}, m \in MsgIds :
          /\ ~store[m].exists
          /\ acks[m] = "none"
          /\ wr' = [path |-> path, m |-> m, pc |-> "embedding", embedding |-> Null]
    /\ UNCHANGED <<embedVars, mergeVars, loadVars, cosVars, delVars, laterVars, indexVars, searchVars, acks, icall, sfail>>

\* The embedding step without its own catch block
OnEmbeddingErrorRethrow == "rethrows"

\* routes/messages.js:141-144, server.js:232-236: the catch block around the
\* embedding step logs and goes on with embedding = null
OnEmbeddingError == "continues"

\* routes/messages.js:136-144, server.js:223-236: generateEmbedding resolves,
\* or message.substring throws on a body that is not a string
WriteEmbedded ==
    /\ wr.pc = "embedding"
    /\ IF SentAsNumber(wr.m)
       THEN IF OnEmbeddingError = "continues"
            THEN /\ wr' = [wr EXCEPT !.embedding = Null, !.pc = "save"]
                 /\ UNCHANGED acks
            ELSE /\ acks' = [acks EXCEPT ![wr.m] = FailureAck(wr.path)]
                 /\ wr' = NoWrite
       ELSE /\ \E e \in GenerateEmbeddingResults(MsgText(wr.m)) :
                  wr' = [wr EXCEPT !.embedding = e, !.pc = "save"]
            /\ UNCHANGED acks
    /\ UNCHANGED <<embedVars, mergeVars, loadVars, cosVars, delVars, laterVars, indexVars, searchVars, icall, sfail>>

\* routes/messages.js:147-156, server.js:239-248: newMessage.save(); when the
\* store rejects it the outer catch block answers
WriteSave ==
    /\ wr.pc = "save"
    /\ \E storeOk \in BOOLEAN :
          IF storeOk
          THEN /\ store' = [store EXCEPT ![wr.m] = [exists |-> TRUE, embedding |-> wr.embedding]]
               /\ wr' = [wr EXCEPT !.pc = "respond"]
               /\ UNCHANGED <<acks, sfail>>
          ELSE /\ acks' = [acks EXCEPT ![wr.m] = FailureAck(wr.path)]
               /\ sfail' = sfail \cup {wr.m}
               /\ wr' = NoWrite
               /\ UNCHANGED store
    /\ UNCHANGED <<embedVars, mergeVars, loadVars, cosVars, delVars, laterVars, searchVars, indexButStoreTasks, tasks, icall>>

\* routes/messages.js:159-181: populate, start indexMessage without awaiting
\* it, res.status(201); server.js:250-271: populate, emit messageReceived
WriteRespond ==
    /\ wr.pc = "respond"
    /\ \E storeOk \in BOOLEAN :
          IF storeOk
          THEN /\ acks' = [acks EXCEPT ![wr.m] = SuccessAck(wr.path)]
               /\ tasks' = IF wr.path = "http" /\ isEnabled THEN tasks \cup {wr.m} ELSE tasks
               /\ UNCHANGED sfail
          ELSE /\ acks' = [acks EXCEPT ![wr.m] = FailureAck(wr.path)]
               /\ sfail' = sfail \cup {wr.m}
               /\ UNCHANGED tasks
    /\ wr' = NoWrite
    /\ UNCHANGED <<embedVars, mergeVars, loadVars, cosVars, delVars, laterVars, searchVars, indexButStoreTasks, store, icall>>

\* routes/messages.js:164-171: the detached vectorDatabase.indexMessage call
\* runs to its end
WriteIndexTask ==
    \E m \in tasks :
        /\ nextPid <= MaxPoints
        /\ tasks' = tasks \ {m}
        /\ \E v \in GenerateEmbeddingResults(MsgText(m)) :
              /\ SetIndexState(indexMessage(IndexState, m, MsgSender(m), v))
              /\ icall' = [fn |-> "vectorDatabase.indexMessage",
                           outcome |-> indexMessageSettles(v)]
        /\ UNCHANGED <<embedVars, mergeVars, loadVars, cosVars, delVars, laterVars, searchVars, isEnabled, vclient, dimensions, initpc,
                       remoteUp, collDim, useVectorDB, wr, acks, sfail>>

\* enhancedSearch.js:282-301  enhancedSearch.indexMessage(message) on a stored
\* message: getStats, vectorDatabase.indexMessage when enabled, then the
\* embedding is generated again and written to the store.  The seed script
\* (seed-test-messages.js) calls it while the server handles no send.
EnhancedIndexMessage ==
    \E m \in MsgIds :
        /\ wr = NoWrite /\ tasks = {}
        /\ store[m].exists
        /\ nextPid <= MaxPoints
        /\ \E iv \in GenerateEmbeddingResults(MsgText(m)),
              ev \in GenerateEmbeddingResults(MsgText(m)), storeOk \in BOOLEAN :
              LET inner == IF getStatsEnabled THEN indexMessageSettles(iv) ELSE "none"
                  first == IF inner = "rejected" THEN OnEnhancedIndexError(inner)
                           ELSE "continues"
                  st1 == IF getStatsFailed
                         THEN [IndexState EXCEPT !.remoteErrors = CountError(@)]
                         ELSE IF getStatsEnabled
                              THEN indexMessage(IndexState, m, MsgSender(m), iv)
                              ELSE IndexState
                  st2 == IF first = "continues" /\ storeOk
                         THEN [st1 EXCEPT !.store[m].embedding = ev]
                         ELSE st1
              IN  /\ SetIndexState(st2)
                  /\ icall' = [fn |-> "enhancedSearch.indexMessage",
                               outcome |-> IF first = "continues" THEN "resolved"
                                           ELSE "rejected"]
        /\ UNCHANGED <<embedVars, mergeVars, loadVars, cosVars, delVars, laterVars, searchVars, isEnabled, vclient, dimensions, initpc,
                       remoteUp, collDim, useVectorDB, tasks, wr, acks, sfail>>

\* A fresh deployment, as in IndexInit, with no message sent yet
WriteInit ==
    /\ \E enableFlag \in BOOLEAN, urlSet \in BOOLEAN :
          IndexConstructed(enableFlag, urlSet, EMBEDDING_DIM)
    /\ remoteUp = TRUE
    /\ collDim = 0
    /\ coll = {}
    /\ useClaude = TRUE
    /\ useOpenAI = FALSE
    /\ epc = "idle" /\ etext = "hello there" /\ etried = <<>>
    /\ eresult = NoResult /\ ecalls = 0
    /\ MergeIdle
    /\ SearchIdle
    /\ wr = NoWrite
    /\ acks = [m \in MsgIds |-> "none"]
    /\ icall = NoCall
    /\ sfail = {}
    /\ LoadIdle
    /\ CosIdle
    /\ DelIdle
    /\ LaterIdle

WriteNext ==
    \/ InitializeClient
    \/ WriteReceive
    \/ WriteEmbedded
    \/ WriteSave
    \/ WriteRespond
    \/ WriteIndexTask
    \/ EnhancedIndexMessage
    \/ RemoteDown

SpecWrite == WriteInit /\ [][WriteNext]_vars

\* The search types that name the remote index
RemoteSearchTypes == {"vector_db", "qdrant_vector_search"}

\* C16: a combined search during which the message store answered no query
\* (the lexical query failed, and so did the store query of the in-process
\* semantic search when that path was taken) is answered with HTTP 5xx.
C16_StoreFailureIs5xx ==
    (sq.kind = "combined" /\ sout # NoOutcome /\ werr /\ (vpath = "mongodb" => merr)) =>
        sout.http >= 500

\* C17: the searchType reported with a search names the remote index exactly
\* when the remote index produced the semantic hits of that search.
C17_SearchTypeNamesBackend ==
    sout.status = "resolved" =>
        (sout.searchType \in RemoteSearchTypes <=> vpath = "vector_db")

\* C11: a send does not wait for the embedding provider: while the handler
\* awaits generateEmbedding with the message not yet persisted, the step that
\* persists the message can be taken.
C11_WriteDoesNotWait ==
    (wr.pc = "embedding" /\ ~store[wr.m].exists) => ENABLED WriteSave

C13_IndexMessageNeverRejects ==
    icall.outcome \in {"none", "resolved"}

C13_Witness ==
    /\ icall = [fn |-> "vectorDatabase.indexMessage", outcome |-> "resolved"]
    /\ isEnabled /\ collDim = 0 /\ remoteErrors > 0
    /\ coll = {}

(***************************************************************************)
(* LocalEmbeddingService: loadModel and embedText                          *)
(***************************************************************************)

\* The concurrent callers of embedText
NumCallers == 2

\* The embedText calls of one caller
MaxLoadCalls == 2

\* The loads a behaviour starts
MaxLoads == 3

Callers == 1..NumCallers

LoadIds == 1..MaxLoads

\* The loads whose async body has not finished
LoadsInFlight == { id \in LoadIds : pstate[id] \in {"import", "pipeline"} }

LoadsStarted == { id \in LoadIds : pstate[id] # "unused" }

\* loadModel without the isLoading check
JoinsNever == FALSE

\* localEmbeddings.js:36-38  if (this.isLoading) return this.loadPromise
JoinsInFlight == isLoading

\* Everything but the local model service
notLoadVars == <<embedVars, mergeVars, indexVars, searchVars, writeVars, cosVars, delVars, laterVars>>

\* localEmbeddings.js:71-82 and 31-64: embedText is entered and calls
\* loadModel, which returns the model, the promise of the load in progress, or
\* starts a load (its body runs up to the first await)
EmbedTextCall ==
    \E c \in Callers :
        /\ cst[c].pc = "idle"
        /\ cst[c].calls < MaxLoadCalls
        /\ LET during == IF LoadsInFlight = {} THEN 0
                         ELSE CHOOSE id \in LoadsInFlight : \A o \in LoadsInFlight : id >= o
               fresh == Cardinality(LoadsStarted) + 1
           IN  IF lmodel
               THEN /\ cst' = [cst EXCEPT ![c] = [pc |-> "infer", awaits |-> 0, during |-> during,
                                                  calls |-> @.calls + 1]]
                    /\ UNCHANGED <<isLoading, loadPromise, pstate>>
               ELSE IF JoinsInFlight
               THEN /\ cst' = [cst EXCEPT ![c] = [pc |-> "awaitLoad", awaits |-> loadPromise,
                                                  during |-> during, calls |-> @.calls + 1]]
                    /\ UNCHANGED <<isLoading, loadPromise, pstate>>
               ELSE /\ fresh \in LoadIds
                    /\ isLoading' = TRUE
                    /\ loadPromise' = fresh
                    /\ pstate' = [pstate EXCEPT ![fresh] = "import"]
                    /\ cst' = [cst EXCEPT ![c] = [pc |-> "awaitLoad", awaits |-> fresh,
                                                  during |-> during, calls |-> @.calls + 1]]
        /\ UNCHANGED <<notLoadVars, lmodel, transformers>>

\* localEmbeddings.js:16-25, 46: loadTransformers settles inside a load
ImportDone ==
    \E id \in LoadIds, ok \in BOOLEAN :
        /\ pstate[id] = "import"
        /\ IF ok \/ transformers
           THEN /\ pstate' = [pstate EXCEPT ![id] = "pipeline"]
                /\ transformers' = TRUE
                /\ UNCHANGED isLoading
           ELSE \* catch rethrows, finally: this.isLoading = false
                /\ pstate' = [pstate EXCEPT ![id] = "rejected"]
                /\ isLoading' = FALSE
                /\ UNCHANGED transformers
        /\ UNCHANGED <<notLoadVars, lmodel, loadPromise, cst>>

\* localEmbeddings.js:49-60: pipeline(...) settles; this.model is assigned on
\* success, and finally resets isLoading
PipelineDone ==
    \E id \in LoadIds, ok \in BOOLEAN :
        /\ pstate[id] = "pipeline"
        /\ pstate' = [pstate EXCEPT ![id] = IF ok THEN "fulfilled" ELSE "rejected"]
        /\ lmodel' = (lmodel \/ ok)
        /\ isLoading' = FALSE
        /\ UNCHANGED <<notLoadVars, loadPromise, transformers, cst>>

\* localEmbeddings.js:76-116: the caller's race on loadModel settles (the load
\* settled, or the 30 s timer fired first), the model is run when there is one,
\* and embedText returns the embedding or a zero vector
EmbedTextReturn ==
    \E c \in Callers :
        /\ cst[c].pc \in {"awaitLoad", "infer"}
        /\ cst' = [cst EXCEPT ![c].pc = "idle"]
        /\ UNCHANGED <<notLoadVars, lmodel, isLoading, loadPromise, transformers, pstate>>

LoadInit ==
    /\ EmbedIdle
    /\ MergeIdle
    /\ IndexIdle
    /\ SearchIdle
    /\ WriteIdle
    /\ CosIdle
    /\ DelIdle
    /\ LaterIdle
    /\ lmodel = FALSE
    /\ isLoading = FALSE
    /\ loadPromise = 0
    /\ transformers = FALSE
    /\ pstate = [id \in LoadIds |-> "unused"]
    /\ cst = [c \in Callers |-> [pc |-> "idle", awaits |-> 0, during |-> 0, calls |-> 0]]

LoadNext ==
    \/ EmbedTextCall
    \/ ImportDone
    \/ PipelineDone
    \/ EmbedTextReturn

SpecLoad == LoadInit /\ [][LoadNext]_vars

\* C15: at most one model load is in flight; a caller that arrived while a
\* load was in progress awaits that load; at most one load succeeds, and once
\* one has, the model is set and no load is in flight again.
C15_SingleFlightLoad ==
    /\ Cardinality(LoadsInFlight) <= 1
    /\ \A c \in Callers :
          (cst[c].pc = "awaitLoad" /\ cst[c].during # 0) => cst[c].awaits = cst[c].during
    /\ Cardinality({ id \in LoadIds : pstate[id] = "fulfilled" }) <= 1
    /\ (\E id \in LoadIds : pstate[id] = "fulfilled") => (lmodel /\ LoadsInFlight = {})

C15_Witness ==
    /\ pstate[1] = "rejected"
    /\ \E c, d \in Callers :
          /\ c # d
          /\ cst[c].pc = "awaitLoad" /\ cst[d].pc = "awaitLoad"
          /\ cst[c].awaits = cst[d].awaits
          /\ cst[c].awaits \in LoadsInFlight
          /\ cst[d].during = cst[d].awaits

\* C19: once the remote collection exists, every embedding generateEmbedding
\* returned for a stored message has the collection's vector size, which is
\* the size the service reports (getEmbeddingDimension).
C19_CollectionDimensionIsEmbeddingDimension ==
    collDim # 0 =>
        /\ collDim = EMBEDDING_DIM
        /\ \A m \in MsgIds :
              (store[m].exists /\ HasEmbedding(store[m].embedding)) =>
                  store[m].embedding.len = collDim

\* The same under the default VECTOR_DIMENSIONS only
C19_HoldsForDefaultDimensions ==
    dimensions = EMBEDDING_DIM => C19_CollectionDimensionIsEmbeddingDimension

(***************************************************************************)
(* deleteMessage with its requests recorded                                *)
(***************************************************************************)

DeleteMessageLogged == DeleteStep(TRUE)

DeleteNext ==
    \/ InitializeClient
    \/ HttpSend
    \/ IndexTaskRun
    \/ ReindexMessage
    \/ DeleteMessageLogged
    \/ RemoteDown
    \/ RemoteRecover

SpecDelete == IndexInit /\ [][DeleteNext]_vars

\* C20: a deleteMessage call resolves; for a message id that has no point in
\* the collection it sends no delete request and leaves the collection as it
\* was; a delete request it sends is the only one of the call, names the id
\* of one point whose payload messageId is the id asked for, follows a search
\* filtered on messageId, and removes exactly that point.
C20_DeleteByLocatedPointId ==
    [][dcall' # dcall =>
          LET m == dcall'.m IN
          /\ dcall'.outcome = "resolved"
          /\ PointsOf(coll, m) = {} => (dcall'.deletes = <<>> /\ coll' = coll)
          /\ dcall'.deletes # <<>> =>
                /\ dcall'.searches = <<[key |-> "messageId", value |-> m]>>
                /\ \E p \in PointsOf(coll, m) :
                      /\ dcall'.deletes = <<{p.id}>>
                      /\ coll' = coll \ {p}
          /\ dcall'.deletes = <<>> => coll' = coll]_vars

\* deleteMessage searched a collection that holds points of other messages
\* only, with no remote failure before: it found nothing and sent no delete
C20_Witness ==
    /\ dcall.outcome = "resolved"
    /\ dcall.searches # <<>>
    /\ dcall.deletes = <<>>
    /\ remoteErrors = 0
    /\ coll # {}
    /\ PointsOf(coll, dcall.m) = {}

\* deleteMessage found a point of a message indexed twice and deleted it
C20_FoundWitness ==
    /\ Len(dcall.deletes) = 1
    /\ PointsOf(coll, dcall.m) # {}

(***************************************************************************)
(* The cosine routines                                                     *)
(***************************************************************************)

\* The lengths and the leading components of the vectors compared: 384 is
\* the length of the local model's vectors (localEmbeddings.js:96-105)
CosLengths == {EMBEDDING_DIM, 384}

CosComponents == 0..2

CosVectors == { Vec(n, a, b) : n \in CosLengths, a \in CosComponents, b \in CosComponents }

CosReturn(routine, v) == [routine |-> routine, outcome |-> "returned", value |-> v]

CosThrow(routine) == [routine |-> routine, outcome |-> "threw", value |-> 0]

\* The quotient of the three routines, in 1/100
CosQuotient(a, b) ==
    LET dotProduct == a.x * b.x + a.y * b.y
        normA == a.x * a.x + a.y * a.y
        normB == b.x * b.x + b.y * b.y
    IN  IF normA = 0 \/ normB = 0 THEN 0 ELSE Sim100(dotProduct, normA * normB)

\* enhancedSearch.js:257-277
enhancedCosineSimilarity(vecA, vecB) ==
    CosReturn("enhancedSearch", cosineSimilarity(vecA, vecB))

\* localEmbeddings.js:124-147
localCosineSimilarity(embedding1, embedding2) ==
    IF embedding1.len # embedding2.len THEN CosThrow("localEmbeddings")
    ELSE CosReturn("localEmbeddings", CosQuotient(embedding1, embedding2))

\* routes/messages.js:439-459
routeCosineSimilarity(vecA, vecB) ==
    IF vecA.len # vecB.len THEN CosReturn("route", 0)
    ELSE CosReturn("route", CosQuotient(vecA, vecB))

\* semanticSearch.js:47-74: the loop body of searchMessages calls the local
\* routine inside a try and skips the message when it throws
searchMessagesCompare(queryEmbedding, embedding) ==
    LET r == localCosineSimilarity(queryEmbedding, embedding)
    IN  IF r.outcome = "threw"
        THEN [routine |-> "searchMessages", outcome |-> "skipped", value |-> 0]
        ELSE [r EXCEPT !.routine = "searchMessages"]

notCosVars == <<embedVars, mergeVars, indexVars, searchVars, writeVars, loadVars, delVars, laterVars>>

EnhancedCosine ==
    /\ cosOut = NoCosine
    /\ cosOut' = enhancedCosineSimilarity(cosA, cosB)
    /\ UNCHANGED <<notCosVars, cosA, cosB>>

LocalCosine ==
    /\ cosOut = NoCosine
    /\ cosOut' = localCosineSimilarity(cosA, cosB)
    /\ UNCHANGED <<notCosVars, cosA, cosB>>

RouteCosine ==
    /\ cosOut = NoCosine
    /\ cosOut' = routeCosineSimilarity(cosA, cosB)
    /\ UNCHANGED <<notCosVars, cosA, cosB>>

SearchMessagesCompare ==
    /\ cosOut = NoCosine
    /\ cosOut' = searchMessagesCompare(cosA, cosB)
    /\ UNCHANGED <<notCosVars, cosA, cosB>>

CosInit ==
    /\ EmbedIdle
    /\ MergeIdle
    /\ IndexIdle
    /\ SearchIdle
    /\ WriteIdle
    /\ LoadIdle
    /\ DelIdle
    /\ LaterIdle
    /\ cosA \in CosVectors
    /\ cosB \in CosVectors
    /\ cosOut = NoCosine

CosNext ==
    \/ EnhancedCosine
    \/ LocalCosine
    \/ RouteCosine
    \/ SearchMessagesCompare

SpecCosine == CosInit /\ [][CosNext]_vars

\* C18: a cosine routine applied to two vectors of unequal length returns 0
\* and does not throw, whichever of the routines it is.
C18_UnequalLengthsGiveZero ==
    (cosOut.routine \in {"enhancedSearch", "localEmbeddings", "route"}
        /\ cosA.len # cosB.len) =>
        (cosOut.outcome = "returned" /\ cosOut.value = 0)

(***************************************************************************)
(* Claims on the backfill, the merge and the search results                *)
(***************************************************************************)

\* The messages a backfill for userId is meant to cover: the messages the
\* user sent or received, every message when no user is given
BackfillScope(userId) ==
    { m \in MsgIds : /\ store[m].exists
                     /\ (userId = "" \/ MsgSender(m) = userId \/ MsgReceiver(m) = userId) }

\* C21: a backfill run for userId started when every message of that user's
\* scope has an embedding changes neither the message store nor the remote
\* collection.
C21_BackfillIdempotent ==
    [][\A userId \in BackfillUsers :
          (/\ \A m \in BackfillScope(userId) : HasEmbedding(store[m].embedding)
           /\ BackfillFor(userId, MaxPoints))
          => (store' = store /\ coll' = coll)]_vars

\* The same for the runs without a userId, whose scope is every message
C21_UnscopedBackfillIdempotent ==
    [][(/\ \A m \in BackfillScope("") : HasEmbedding(store[m].embedding)
        /\ BackfillFor("", MaxPoints))
       => (store' = store /\ coll' = coll)]_vars

(***************************************************************************)
(* A search against a remote index that may stop answering                 *)
(***************************************************************************)

\* vectorDatabase.js:30-33 builds the client from url and apiKey alone and
\* vectorDatabase.js:163, 268 await its calls with no timer beside them: a
\* request the remote index does not answer stays pending
RemoteCallSettles == (isEnabled /\ vclient) => ~remoteSilent

\* The remote index stops answering
RemoteSilence ==
    /\ ~remoteSilent
    /\ remoteSilent' = TRUE
    /\ UNCHANGED <<embedVars, mergeVars, indexVars, searchVars, writeVars, loadVars, cosVars,
                   delVars, routeVars, moreVars>>

\* enhancedSearch.js:122 -> vectorDatabase.js:250-285: getStats resumes when
\* client.getCollection settles
SemStatsSettled == RemoteCallSettles /\ SemStats

\* enhancedSearch.js:127 -> vectorDatabase.js:160-178: the query embedding (an
\* axios call with timeout 15000, embeddings.js:86, 148), then client.search
SemVectorSettled == RemoteCallSettles /\ SemVector

SearchLiveNext ==
    \/ SearchCall
    \/ WordFind
    \/ SemStatsSettled
    \/ SemVectorSettled
    \/ SemMongo
    \/ SearchJoin
    \/ RemoteSilence

\* Every continuation whose awaited call has settled is run
SpecSearchLive ==
    /\ SearchInit
    /\ [][SearchLiveNext]_vars
    /\ WF_vars(WordFind)
    /\ WF_vars(SemStatsSettled)
    /\ WF_vars(SemVectorSettled)
    /\ WF_vars(SemMongo)
    /\ WF_vars(SearchJoin)

\* C22: every search that was started is eventually answered, with a result
\* or with an error, whatever the remote index does.
C22_SearchEventuallyReturns == (sq # NoSearch) ~> (sout # NoOutcome)

\* C24: in the merge's output a record is tagged with the word source only
\* if its message id is in the lexical hit list, and with the semantic source
\* only if its message id is in the semantic hit list.
C24_SourceTagsMatchLists ==
    mpc = "merged" =>
        \A i \in 1..Len(mOut) :
            /\ HasSource(mOut[i], "word") => mOut[i].id \in Ids(mWord)
            /\ HasSource(mOut[i], "semantic") => mOut[i].id \in Ids(mSem)
            /\ \A k \in 1..Len(mOut[i].sources) : mOut[i].sources[k] \in {"word", "semantic"}

\* The output holds a record of an id of the lexical list alone and one of an
\* id of the semantic list alone
C24_Witness ==
    /\ mpc = "merged"
    /\ \E i, j \in 1..Len(mOut) :
          /\ mOut[i].id \in Ids(mWord) \ Ids(mSem)
          /\ mOut[j].id \in Ids(mSem) \ Ids(mWord)

C25_FallbackWitness ==
    /\ vpc = "done"
    /\ vpath = "mongodb"
    /\ Len(vres) = BranchLimit
    /\ \E i, j \in 1..Len(vres) : vres[i].similarity > vres[j].similarity

\* C26: every message a search for user u holds, in the lexical result, in
\* the semantic result of either path and in the answer, is a stored message
\* that u sent or received.
C26_ResultsBelongToUser ==
    \A m \in Ids(wres) \cup Ids(vres) \cup Ids(sout.results) :
        /\ store[m].exists
        /\ (MsgSender(m) = sq.userId \/ MsgReceiver(m) = sq.userId)

\* A search was answered with hits while the store holds a message of a
\* conversation the user is not part of
C26_Witness ==
    /\ sout.status = "resolved"
    /\ Len(sout.results) >= 1
    /\ \E m \in MsgIds :
          store[m].exists /\ MsgSender(m) # sq.userId /\ MsgReceiver(m) # sq.userId

\* The same with the hits of the remote index among the answer
C26_RemoteWitness ==
    /\ C26_Witness
    /\ vpath = "vector_db"
    /\ Len(vres) >= 1

(***************************************************************************)
(* GET /search seen from the route                                         *)
(***************************************************************************)

\* The values of req.query.userId and req.query.q ("": the parameter is absent)
RouteUsers == {"", "u1"}

RouteQueries == {"", "hello there"}

\* The values of req.query.combineResults ("": absent)
CombineParams == {"", "true", "false", "1"}

\* routes/messages.js:269: combineResults = 'true' by default, and line 287:
\* combineResults === 'true'
CombineFlag(param) == (IF param = "" THEN "true" ELSE param) = "true"

\* enhancedSearch.js:34-63: the object combinedSearch resolves to: its keys
\* and its results
combinedSearchResult(wordResults, semanticResults, limit, combineResults, wordWeight, semanticWeight) ==
    IF ~combineResults
    THEN [keys |-> {"wordResults", "semanticResults", "combined"}, results |-> <<>>]
    ELSE [keys |-> {"results", "wordResults", "semanticResults", "combined", "metadata"},
          results |-> mergeResults(wordResults, semanticResults, wordWeight,
                                   semanticWeight, limit)]

\* routes/messages.js:258-355  GET /search, the two branches of the search
\* having resolved to mWord and mSem
searchRoute(req, wordResults, semanticResults, limit, wordWeight, semanticWeight) ==
    IF req.userId = "" \/ req.q = ""
    THEN [status |-> 400, keys |-> {"error"}, total |-> 0]
    ELSE LET searchResult == combinedSearchResult(wordResults, semanticResults, limit,
                                                  CombineFlag(req.combineResults),
                                                  wordWeight, semanticWeight)
         IN  \* line 303: searchResult.results.map throws on undefined
             IF "results" \notin searchResult.keys
             THEN [status |-> 500, keys |-> {"error", "details"}, total |-> 0]
             ELSE [status |-> 200, keys |-> {"query", "results", "metadata"},
                   total |-> Len(searchResult.results)]

GetSearch ==
    /\ rresp = NoResponse
    /\ rresp' = searchRoute(rq, mWord, mSem, mLimit, mWeights[1], mWeights[2])
    /\ UNCHANGED <<embedVars, mergeVars, indexVars, searchVars, writeVars, loadVars, cosVars,
                   delVars, netVars, rq, moreVars>>

RouteInit ==
    /\ EmbedIdle
    /\ IndexIdle
    /\ SearchIdle
    /\ WriteIdle
    /\ LoadIdle
    /\ CosIdle
    /\ DelIdle
    /\ NetIdle
    /\ MoreIdle
    /\ mpc = "input"
    /\ mWord \in { w \in WordLists : Len(w) <= 1 }
    /\ mSem \in { s \in SemLists : Len(s) <= 1 }
    /\ mWeights = <<DEFAULT_WORD_WEIGHT, DEFAULT_SEMANTIC_WEIGHT>>
    /\ mLimit \in 1..MaxLimit
    /\ mOut = <<>>
    /\ rq \in [userId : RouteUsers, q : RouteQueries, combineResults : CombineParams]
    /\ rresp = NoResponse

RouteNext == GetSearch

SpecRoute == RouteInit /\ [][RouteNext]_vars

\* C27: a GET /search request with a userId, a q and combineResults true or
\* false is answered 200 with a body of the keys query, results, metadata.
C27_BothCombineValuesSucceed ==
    (rresp # NoResponse /\ rq.userId # "" /\ rq.q # ""
        /\ rq.combineResults \in {"true", "false"}) =>
        (rresp.status = 200 /\ rresp.keys = {"query", "results", "metadata"})

\* The same for combineResults true or absent
C27_CombinedRequestsSucceed ==
    (rresp # NoResponse /\ rq.userId # "" /\ rq.q # ""
        /\ rq.combineResults \in {"true", ""}) =>
        (rresp.status = 200 /\ rresp.keys = {"query", "results", "metadata"})

(***************************************************************************)
(* VectorDatabaseService.initializeClient and ensureCollection, run by      *)
(* several processes against one remote index                               *)
(***************************************************************************)

\* A process is started at most this many times
MaxStarts == 2

\* How a request to the remote index can end apart from its answer
CollOutcomes == {"ok", "network"}

notCollVars == <<embedVars, mergeVars, indexVars, searchVars, writeVars, loadVars, cosVars,
                 delVars, netVars, routeVars, introVars, callVars>>

\* vectorDatabase.js:38-41: the catch of initializeClient
InitializeFailed(inst, error) ==
    [inst EXCEPT !.pc = "idle", !.enabled = FALSE, !.error = error]

\* vectorDatabase.js:5-14, 19-34: the constructor with ENABLE_VECTOR_SEARCH
\* 'true' and QDRANT_URL set calls initializeClient
ConstructService(i) ==
    /\ vinst[i].pc = "idle"
    /\ vinst[i].starts < MaxStarts
    /\ vinst' = [vinst EXCEPT ![i] = [pc |-> "list", enabled |-> TRUE, field |-> 0,
                                      starts |-> @.starts + 1, answers |-> {},
                                      error |-> "none"]]
    /\ UNCHANGED <<qremote, notCollVars>>

\* vectorDatabase.js:50-53: getCollections and the test for collectionName
GetCollections(i) ==
    /\ vinst[i].pc = "list"
    /\ \E o \in CollOutcomes :
          vinst' = [vinst EXCEPT ![i] =
                       IF o = "network" THEN InitializeFailed(@, "network")
                       ELSE IF qremote.exists THEN [@ EXCEPT !.pc = "index", !.field = 1]
                       ELSE [@ EXCEPT !.pc = "create"]]
    /\ UNCHANGED <<qremote, notCollVars>>

\* vectorDatabase.js:55-63, 72-75: createCollection; the remote index refuses
\* a collection that exists by now, and the catch rethrows whatever was thrown
CreateCollection(i) ==
    /\ vinst[i].pc = "create"
    /\ \E o \in CollOutcomes :
          IF o = "network"
          THEN /\ vinst' = [vinst EXCEPT ![i] = InitializeFailed(@, "network")]
               /\ UNCHANGED qremote
          ELSE IF qremote.exists
          THEN /\ vinst' = [vinst EXCEPT ![i] =
                               InitializeFailed([@ EXCEPT !.answers = @ \cup {"collection"}],
                                                "already exists")]
               /\ UNCHANGED qremote
          ELSE /\ vinst' = [vinst EXCEPT ![i] = [@ EXCEPT !.pc = "index", !.field = 1]]
               /\ qremote' = [qremote EXCEPT !.exists = TRUE, !.creates = @ + 1]
    /\ UNCHANGED notCollVars

\* vectorDatabase.js:80-104, 36-37: one createPayloadIndex of
\* ensurePayloadIndexes; every error of it is logged and dropped
CreatePayloadIndex(i) ==
    /\ vinst[i].pc = "index"
    /\ LET f == PayloadFields[vinst[i].field]
           last == vinst[i].field = Len(PayloadFields)
           next == [vinst[i] EXCEPT !.pc = IF last THEN "idle" ELSE "index",
                                    !.field = IF last THEN 0 ELSE @ + 1]
       IN  \E o \in CollOutcomes :
             IF o = "network"
             THEN /\ vinst' = [vinst EXCEPT ![i] = next]
                  /\ UNCHANGED qremote
             ELSE IF f \in qremote.indexes
             THEN /\ vinst' = [vinst EXCEPT ![i] =
                                  [next EXCEPT !.answers = @ \cup {"index"}]]
                  /\ UNCHANGED qremote
             ELSE /\ vinst' = [vinst EXCEPT ![i] = next]
                  /\ qremote' = [qremote EXCEPT !.indexes = @ \cup {f}]
    /\ UNCHANGED notCollVars

CollInit ==
    /\ EmbedIdle
    /\ MergeIdle
    /\ IndexIdle
    /\ SearchIdle
    /\ WriteIdle
    /\ LoadIdle
    /\ CosIdle
    /\ DelIdle
    /\ NetIdle
    /\ RouteIdle
    /\ MoreIdle

CollNext ==
    \E i \in Instances :
        \/ ConstructService(i)
        \/ GetCollections(i)
        \/ CreateCollection(i)
        \/ CreatePayloadIndex(i)

SpecCollection == CollInit /\ [][CollNext]_vars

\* C29: a process that the remote index answered 'already exists', for the
\* collection or for a payload index, and that met no other error keeps its
\* VectorIndex enabled; and the collection is created at most once.
C29_AlreadyExistsIsSuccess ==
    /\ qremote.creates <= 1
    /\ \A i \in Instances :
          (vinst[i].answers # {} /\ vinst[i].error # "network") => vinst[i].enabled

\* An 'already exists' answer for a payload index alone leaves the
\* VectorIndex enabled
C29_IndexExistsIsSuccess ==
    \A i \in Instances :
        (vinst[i].answers = {"index"} /\ vinst[i].error = "none") => vinst[i].enabled

\* A process started again finds the collection and creates nothing
C29_RestartCreatesNothing ==
    \A i \in Instances :
        (vinst[i].starts = 2 /\ vinst[i].pc = "idle" /\ vinst[i].error = "none") =>
            /\ qremote.creates = 1
            /\ vinst[i].enabled

(***************************************************************************)
(* EmbeddingService.getEmbeddingDimension and getActiveService, called      *)
(* between and during generateEmbedding calls                               *)
(***************************************************************************)

\* embeddings.js:347-349  getEmbeddingDimension()
getEmbeddingDimension == EMBEDDING_DIM

notIntroVars == <<mergeVars, indexVars, searchVars, writeVars, loadVars, cosVars, delVars,
                  netVars, routeVars, collVars, callVars>>

\* A caller reads getActiveService(); the service's fields are left as they are
GetActiveService ==
    /\ <<ecalls, getActiveService>> \notin iask.service
    /\ iask' = [iask EXCEPT !.service = @ \cup {<<ecalls, getActiveService>>}]
    /\ UNCHANGED <<embedVars, notIntroVars>>

\* A caller reads getEmbeddingDimension()
GetEmbeddingDimension ==
    /\ <<ecalls, getEmbeddingDimension>> \notin iask.dimension
    /\ iask' = [iask EXCEPT !.dimension = @ \cup {<<ecalls, getEmbeddingDimension>>}]
    /\ UNCHANGED <<embedVars, notIntroVars>>

IntroNext == EmbedNext \/ GetActiveService \/ GetEmbeddingDimension

SpecIntrospect == EmbedInit /\ [][IntroNext]_vars

\* C30: no step after construction changes useClaude or useOpenAI, a step
\* of getActiveService or getEmbeddingDimension changes no field of the
\* service, and all answers of each of the two methods are the same whatever
\* generateEmbedding calls, successful or failing, ran between them.
C30_SelectionIsFixed ==
    [][ /\ useClaude' = useClaude
        /\ useOpenAI' = useOpenAI
        /\ (iask' # iask => UNCHANGED embedVars)
        /\ \A a, b \in iask'.service : a[2] = b[2]
        /\ \A a, b \in iask'.dimension : a[2] = b[2] ]_vars

\* Both methods were asked before the first call and after the second, and
\* the second call ended on the zero vector after every attempt failed
C30_Witness ==
    /\ \E a, b \in iask.service : a[1] = 0 /\ b[1] = MaxEmbedCalls
    /\ \E a, b \in iask.dimension : a[1] = 0 /\ b[1] = MaxEmbedCalls
    /\ epc = "done"
    /\ Len(etried) = 2
    /\ eresult = Returned(ZeroVector)

\* Both methods were asked before and after a call that returned the
\* vector of the provider selected
C30_SuccessWitness ==
    /\ \E a, b \in iask.service : a[1] = 0 /\ b[1] = 1
    /\ \E a, b \in iask.dimension : a[1] = 0 /\ b[1] = 1
    /\ epc = "done"
    /\ Len(etried) = 1
    /\ eresult.kind = "vector"

(***************************************************************************)
(* generateEmbedding without a remote provider                             *)
(***************************************************************************)

getStatsCatchRethrows ==
    [outcome |-> "threw", enabled |-> FALSE, vectors_count |-> Undefined, asked |-> TRUE]

\* vectorDatabase.js:278-284: the catch block of getStats
getStatsCatch ==
    [outcome |-> "returned", enabled |-> FALSE, vectors_count |-> Undefined, asked |-> TRUE]

\* vectorDatabase.js:250-285  getStats(): the object the call comes to;
\* asked says that client.getCollection was called
getStats ==
    IF ~isEnabled
    THEN [outcome |-> "returned", enabled |-> FALSE, vectors_count |-> Undefined,
          asked |-> FALSE]
    ELSE IF ~vclient
    THEN [outcome |-> "returned", enabled |-> FALSE, vectors_count |-> Undefined,
          asked |-> FALSE]
    ELSE IF RemoteReady
    THEN [outcome |-> "returned", enabled |-> TRUE, vectors_count |-> Cardinality(coll),
          asked |-> TRUE]
    ELSE getStatsCatch

GetStats ==
    /\ gstats' = getStats
    /\ remoteErrors' = IF getStatsFailed THEN CountError(remoteErrors) ELSE remoteErrors
    /\ UNCHANGED <<embedVars, mergeVars, searchVars, writeVars, loadVars, cosVars, delVars,
                   netVars, routeVars, collVars, introVars, bcall,
                   isEnabled, vclient, dimensions, initpc, remoteUp, collDim, coll, nextPid,
                   useVectorDB, store, tasks, live>>

StatsNext ==
    \/ InitializeClient
    \/ HttpSend
    \/ IndexTaskRun
    \/ RemoteDown
    \/ RemoteRecover
    \/ GetStats

SpecStats == IndexInit /\ [][StatsNext]_vars

\* C31: a getStats call returns and does not throw; it returns enabled =
\* false when the index is disabled, the client is missing or the remote call
\* fails, and enabled = true, with the number of points of the collection,
\* only when the remote collection answered.
C31_GetStatsNeverThrows ==
    [][gstats' # gstats =>
          /\ gstats'.outcome = "returned"
          /\ (~isEnabled \/ ~vclient \/ ~(remoteUp /\ collDim # 0)) => ~gstats'.enabled
          /\ gstats'.enabled =>
                /\ remoteUp /\ collDim # 0
                /\ gstats'.asked
                /\ gstats'.vectors_count = Cardinality(coll)]_vars

\* getStats returned enabled with the count of a collection that holds points
C31_Witness ==
    /\ gstats.outcome = "returned"
    /\ gstats.enabled
    /\ gstats.vectors_count >= 1

\* getStats asked the remote index, the call failed and it returned disabled
C31_FailureWitness ==
    /\ gstats.outcome = "returned"
    /\ ~gstats.enabled
    /\ gstats.asked

(***************************************************************************)
(* VectorDatabaseService.batchIndexMessages seen from its caller            *)
(***************************************************************************)

BatchIndexLogged == BatchStep(TRUE)

BatchNext ==
    \/ InitializeClient
    \/ HttpSend
    \/ BatchIndexLogged
    \/ RemoteDown
    \/ RemoteRecover

SpecBatch == IndexInit /\ [][BatchNext]_vars

\* C32: a batchIndexMessages call on the empty list calls neither
\* generateEmbedding nor the remote index, and leaves the collection, the
\* store and the error count as they were.
C32_EmptyBatchIsNoOp ==
    [][(bcall' # bcall /\ bcall'.messages = <<>>) =>
          /\ bcall'.embeds = 0
          /\ bcall'.upserts = 0
          /\ UNCHANGED <<coll, nextPid, remoteErrors, store, live>>]_vars

\* batchIndexMessages was called on the empty list with the index enabled
\* and the remote index answering
C32_Witness ==
    /\ bcall.outcome = "resolved"
    /\ bcall.messages = <<>>
    /\ isEnabled /\ vclient /\ RemoteReady

(***************************************************************************)
(* The candidates of the two paths of semanticSearch                        *)
(***************************************************************************)

\* The messages the user received and did not send that have both a stored
\* embedding and a point in the collection
ReceivedAndIndexed(userId) ==
    { m \in MsgIds : /\ MsgReceiver(m) = userId
                     /\ MsgSender(m) # userId
                     /\ store[m].exists
                     /\ HasEmbedding(store[m].embedding)
                     /\ PointsOf(coll, m) # {} }

\* C33: when a semanticSearch call was served by the remote index, every
\* indexed message the user received and did not send is a candidate of the
\* remote search exactly when it is a candidate of the in-process search.
C33_PathsSearchSameMessages ==
    (vpc = "done" /\ vpath = "vector_db") =>
        \A m \in ReceivedAndIndexed(sq.userId) :
            (m \in { p.messageId : p \in RemoteCandidates(sq.userId) })
                <=> (m \in MongoCandidates(sq.userId))

\* For the messages the user sent the two paths have the same candidates
C33_SentMessagesAreCandidatesOfBoth ==
    (vpc = "done" /\ vpath = "vector_db") =>
        \A m \in MsgIds :
            (MsgSender(m) = sq.userId /\ store[m].exists
                /\ HasEmbedding(store[m].embedding) /\ PointsOf(coll, m) # {}) =>
                /\ m \in { p.messageId : p \in RemoteCandidates(sq.userId) }
                /\ m \in MongoCandidates(sq.userId)

(***************************************************************************)
(* generateMissingEmbeddings(userId) and the messages of other users        *)
(***************************************************************************)

\* C34: a backfill run for a user changes the stored embedding of no message
\* in which that user is neither sender nor receiver, and adds no point for
\* such a message.
C34_BackfillTouchesOnlyUsersMessages ==
    [][\A userId \in BackfillUsers \ {""} :
          BackfillFor(userId, MaxPoints) =>
              \A m \in MsgIds :
                  (MsgSender(m) # userId /\ MsgReceiver(m) # userId) =>
                      /\ store'[m] = store[m]
                      /\ PointsOf(coll', m) = PointsOf(coll, m)]_vars

(***************************************************************************)
(* The collection after deleteMessage                                      *)
(***************************************************************************)

\* C35: after a deleteMessage call whose remote calls all succeeded, the
\* collection holds no point whose payload messageId is the id deleted.
C35_NoPointAfterDelete ==
    [][(/\ dcall' # dcall
        /\ isEnabled /\ vclient
        /\ remoteUp /\ collDim = dimensions)
       => PointsOf(coll', dcall'.m) = {}]_vars

\* The same for a message that had at most one point when the call was made
C35_NoPointAfterDeleteOfSinglePoint ==
    [][(/\ dcall' # dcall
        /\ isEnabled /\ vclient
        /\ remoteUp /\ collDim = dimensions
        /\ Cardinality(PointsOf(coll, dcall'.m)) <= 1)
       => PointsOf(coll', dcall'.m) = {}]_vars

(***************************************************************************)
(* The stored embedding of a message and the vector of its point            *)
(***************************************************************************)

\* C36: for every message that has an embedding in the store and a point in
\* the collection, the vector of the point is the stored embedding.
C36_PointVectorIsStoredEmbedding ==
    \A m \in MsgIds :
        (store[m].exists /\ HasEmbedding(store[m].embedding)) =>
            \A p \in PointsOf(coll, m) : p.vec = store[m].embedding

\* With the legacy generator alone, which gives one vector per text, the two
\* vectors are equal
C36_EqualUnderLegacyProvider ==
    (~useClaude /\ ~useOpenAI) =>
        \A m \in MsgIds :
            (store[m].exists /\ HasEmbedding(store[m].embedding)) =>
                \A p \in PointsOf(coll, m) : p.vec = store[m].embedding

(***************************************************************************)
(* The sources of a merged result                                          *)
(***************************************************************************)

TagCount(r, tag) == Cardinality({ k \in 1..Len(r.sources) : r.sources[k] = tag })

\* C37: in every merged record each of the tags word and semantic occurs
\* at most once, and the combined score holds the semantic score of the
\* message once, however often its id occurs in the semantic hit list.
C37_SourcesFormASet ==
    mpc = "merged" =>
        \A i \in 1..Len(mOut) :
            LET r == mOut[i] IN
            /\ TagCount(r, "word") <= 1
            /\ TagCount(r, "semantic") <= 1
            /\ r.id \in Ids(mSem) =>
                  \E k \in 1..Len(mSem) :
                      /\ mSem[k].id = r.id
                      /\ r.combinedScore = ScoreIn(mWord, r.id, "wordScore") * mWeights[1]
                                           + mSem[k].similarity * mWeights[2]

\* The same when no message id occurs twice in the semantic hit list
C37_SetWhenHitsAreDistinct ==
    (mpc = "merged" /\ NoRepeats(mSem)) =>
        \A i \in 1..Len(mOut) :
            LET r == mOut[i] IN
            /\ TagCount(r, "word") <= 1
            /\ TagCount(r, "semantic") <= 1
            /\ r.id \in Ids(mSem) =>
                  r.combinedScore = ScoreIn(mWord, r.id, "wordScore") * mWeights[1]
                                    + ScoreIn(mSem, r.id, "similarity") * mWeights[2]

(***************************************************************************)
(* The word boost and the ranking                                          *)
(***************************************************************************)

\* C38: in the merge's output every record whose sources include the word
\* search stands before every record that has the semantic source alone.
C38_WordHitsRankFirst ==
    mpc = "merged" =>
        \A i, j \in 1..Len(mOut) :
            (HasSource(mOut[i], "word") /\ ~HasSource(mOut[j], "word")) => i < j

\* A record with the word source stands before every semantic-only record
\* whose weighted similarity is below the boost
C38_WordHitsRankAboveWeakSemanticHits ==
    mpc = "merged" =>
        \A i, j \in 1..Len(mOut) :
            (/\ HasSource(mOut[i], "word")
             /\ ~HasSource(mOut[j], "word")
             /\ mOut[j].combinedScore < WORD_BOOST) => i < j

(***************************************************************************)
(* generateMissingEmbeddings run again and again on a store that gets no    *)
(* new messages                                                             *)
(***************************************************************************)

\* The batch of a run, BACKFILL_BATCH scaled down to a store of NumMsgs messages
LiveBatch == 2

\* One run; the store rejects the writes of any of the messages
BackfillAttempt ==
    \E userId \in BackfillUsers, failing \in SUBSET MsgIds :
        BackfillRun(userId, NumMsgs, LiveBatch, failing)

\* A run that selects message m and whose write of m succeeds
BackfillWrites(m) ==
    \E userId \in BackfillUsers, failing \in SUBSET (MsgIds \ {m}) :
        /\ m \in FirstN(BackfillQuery(IndexState, userId), LiveBatch)
        /\ BackfillRun(userId, NumMsgs, LiveBatch, failing)

\* Every message is stored, with or without an embedding; the index is on or off
BackfillLiveInit ==
    /\ \E enabled \in BOOLEAN :
          /\ isEnabled = enabled
          /\ useVectorDB = enabled
    /\ vclient = TRUE
    /\ dimensions = EMBEDDING_DIM
    /\ initpc = "done"
    /\ remoteUp \in BOOLEAN
    /\ collDim = EMBEDDING_DIM
    /\ remoteErrors = 0
    /\ tasks = {}
    /\ live = {}
    /\ coll = {}
    /\ nextPid = 1
    /\ useClaude \in BOOLEAN
    /\ useOpenAI = FALSE
    /\ epc = "idle" /\ etext = "hello there" /\ etried = <<>>
    /\ eresult = NoResult /\ ecalls = 0
    /\ \E ev \in [MsgIds -> AllVectors \cup {Null}] :
          /\ \A m \in MsgIds : ev[m] \in {Null} \cup RouteEmbeddings(m)
          /\ store = [m \in MsgIds |-> [exists |-> TRUE, embedding |-> ev[m]]]
    /\ MergeIdle
    /\ SearchIdle
    /\ ExtIdle

BackfillLiveNext == BackfillAttempt

\* The backfill is run again and again, and for each message a run whose
\* write of it succeeds comes about
SpecBackfillLive ==
    /\ BackfillLiveInit
    /\ [][BackfillLiveNext]_vars
    /\ \A m \in MsgIds : WF_vars(BackfillWrites(m))

AllEmbedded == \A m \in MsgIds : store[m].exists => HasEmbedding(store[m].embedding)

C40_BackfillKeepsStoredEmbeddings ==
    [][\A m \in MsgIds :
          (store[m].embedding # Null /\ store[m].embedding.len # 0) =>
              /\ store'[m] = store[m]
              /\ PointsOf(coll', m) = PointsOf(coll, m)]_vars

\* Message 1 was stored with the zero vector of a provider outage and a
\* later backfill run, which embedded and indexed message 3, left it so
C40_Witness ==
    /\ useClaude
    /\ isEnabled /\ remoteUp
    /\ store[1].embedding = ZeroVector
    /\ 1 \notin live
    /\ 3 \in live
    /\ store[3].embedding # Null

Init == EmbedInit

Next == EmbedNext

Spec == Init /\ [][Next]_vars

====
